---------------------------- MODULE Spec2Model ----------------------------
(***************************************************************************)
(* kube-fip-controller: the reconciliation engine.                         *)
(*                                                                         *)
(* Controller (pkg/controller): rate-limited work queue, workers, ticker,  *)
(* syncHandler, handleError.  OSFramework (pkg/frameworks): floating-IP    *)
(* lookup / create / associate against the cloud.                          *)
(***************************************************************************)
EXTENDS Integers, Sequences, FiniteSets, TLC

VARIABLES
    q,          \* c.queue: the rate-limiting work queue
    workers,    \* the worker goroutines and the locals of the sync each runs
    cache,      \* the node informer's store (what syncHandler reads)
    api,        \* the nodes as the API server holds them (what label writes change)
    fips,       \* the cloud's floating IPs, in the cloud's listing order
    metrics,    \* the four Prometheus counters
    hist,       \* history of each key's syncs (observation only)
    env,        \* what the environment may do in this behaviour (never changes)
    fipIn,      \* arguments of one GetOrCreateFloatingIP call, for SpecFIP
    fipOut,     \* what that call returned and issued, for SpecFIP
    proc,       \* the process: main, ServeMetrics, Controller.Run, the ticker
    events,     \* notifications the informer has stored and not yet handed to the handlers
    tick        \* objects the ticker goroutine listed and has not yet enqueued

vars == <<q, workers, cache, api, fips, metrics, hist, env, fipIn, fipOut, proc, events, tick>>

-----------------------------------------------------------------------------
(* Bounds of the model *)

\* syncs the workers may start in one behaviour (caps the operation counters):
\* against a cloud that never changes, and against a cloud that may fail
MaxOps == 5
MaxOpsCloud == 2
\* an event or a tick enqueues a key only while its counter, with the enqueues
\* that are bound to come, is below this
MaxAdds == 2
\* the same, in the scenarios of a cloud that holds the node's floating IP
\* from the start
MaxAddsHeld == 1
\* floating IPs the cloud may hold
MaxFips == 2
\* floating IPs in a listing handed to GetOrCreateFloatingIP (SpecFIP)
MaxListing == 2
\* changes of the cloud by other clients between the listing and the create
\* of one GetOrCreateFloatingIP (SpecFIP)
MaxOthers == 1
\* syncs the workers may start in a behaviour that starts and stops the process
MaxOpsStop == 1
\* enqueues of one key in such a behaviour
MaxAddsStop == 1
\* enqueues of one key by events and ticks between two forgets, under fair
\* scheduling (SpecLive)
MaxAddsLive == 1
\* syncs in a behaviour that follows the externalIP label of one node
\* (SpecCarry)
MaxOpsCarry == 4
\* enqueues of one key between two forgets in a behaviour with node events
\* of every kind (SpecEvents)
MaxAddsEvents == 1
\* syncs in a behaviour of a node with network and subnet labels (SpecNames)
MaxOpsNames == 1
\* syncs in the scenario of a single disabled node
MaxOpsDisabled == 3
\* changes of nodes at the API server in a behaviour with node events of
\* every kind (SpecEvents)
MaxChanges == 1
\* syncs in such a behaviour
MaxOpsEvents == 1

(* Program constants *)

\* handleError: c.queue.NumRequeues(key) < 5
MaxRetries == 5
\* NewTypedItemExponentialFailureRateLimiter(30*time.Second, 600*time.Second)
BaseDelay == 30
MaxDelay == 600

Nodes == {"n1", "n2"}
Workers == {"w1", "w2"}

\* label keys (controller.go const block)
labelKubeFIPControllerEnabled == "enabled"
labelExternalIP == "externalIP"
labelFloatingNetworkName == "floating-network-name"
labelFloatingSubnetName == "floating-subnet-name"
labelNodepoolName == "nodepool"
labelReuseFIPs == "reuse-fips"

\* description strings (openstack.go const block)
createFIPDescription == "desc"
createFIPDescriptionNodepool(nodepool) == "desc nodepool=" \o nodepool

\* the sentinel of getFloatingIP
ErrFIPNotFound == "ErrFIPNotFound"
IsFIPNotFound(err) == err = ErrFIPNotFound

\* a label or annotation mapping without entries
EmptyMap == [k \in {} |-> ""]
\* what the store gives for a key it does not hold (exists = false)
NoNode == [exists |-> FALSE, labels |-> EmptyMap, annotations |-> EmptyMap, status |-> 0,
           nils |-> {}, providerID |-> <<>>]
NoFIP == [id |-> 0, addr |-> "", project |-> "", desc |-> "", fixedIP |-> "", port |-> ""]

-----------------------------------------------------------------------------
(* Sequence helpers *)

SeqToSet(s) == {s[i] : i \in 1..Len(s)}
Min(a, b) == IF a < b THEN a ELSE b

RECURSIVE Pow2(_)
Pow2(n) == IF n = 0 THEN 1 ELSE 2 * Pow2(n - 1)

-----------------------------------------------------------------------------
(* The work queue (k8s.io/client-go/util/workqueue, vendored).             *)
(* q.queue: FIFO of keys waiting for a worker; q.dirty: keys that need     *)
(* processing; q.processing: keys a worker holds; q.waiting: keys whose    *)
(* delayed add has not fired yet; q.failures: the rate limiter's per-key   *)
(* counter; q.shuttingDown.                                                *)

\* Typed.Add
QAdd(qq, item) ==
    IF qq.shuttingDown THEN qq
    ELSE IF item \in qq.dirty THEN qq
    ELSE IF item \in qq.processing
         THEN [qq EXCEPT !.dirty = @ \cup {item}]
         ELSE [qq EXCEPT !.dirty = @ \cup {item}, !.queue = Append(@, item)]

\* Typed.Get, when it returns an item: the head leaves the queue and the dirty
\* set and enters the processing set
QGet(qq) ==
    [qq EXCEPT !.queue = Tail(@),
               !.processing = @ \cup {Head(qq.queue)},
               !.dirty = @ \ {Head(qq.queue)}]

\* Typed.Done: the key leaves the processing set and, if it was added again
\* meanwhile, is released to the queue
QDone(qq, item) ==
    IF item \in qq.dirty
    THEN [qq EXCEPT !.processing = @ \ {item}, !.queue = Append(@, item)]
    ELSE [qq EXCEPT !.processing = @ \ {item}]

\* ItemExponentialFailureRateLimiter.When: the delay for the item, in seconds
\* (baseDelay * 2^failures, capped); the call also counts one more failure
When(qq, item) == Min(BaseDelay * Pow2(Min(qq.failures[item], 10)), MaxDelay)

\* ItemExponentialFailureRateLimiter.NumRequeues
NumRequeues(qq, item) == qq.failures[item]

\* ItemExponentialFailureRateLimiter.Forget
QForget(qq, item) == [qq EXCEPT !.failures[item] = 0]

\* rateLimitingType.AddRateLimited: AddAfter(item, rateLimiter.When(item)).
\* When runs first and counts; AddAfter drops the item when shutting down,
\* else holds it (one entry per key) until the delay has passed.
QAddRateLimited(qq, item) ==
    LET counted == [qq EXCEPT !.failures[item] = @ + 1]
    IN  IF qq.shuttingDown THEN counted
        ELSE [counted EXCEPT !.waiting = @ \cup {item}]

\* delayingType.waitingLoop: the delay of a waiting key has passed
QReady(qq, item) ==
    QAdd([qq EXCEPT !.waiting = @ \ {item}], item)

EmptyQueue ==
    [queue |-> <<>>, dirty |-> {}, processing |-> {}, waiting |-> {},
     failures |-> [k \in Nodes |-> 0], shuttingDown |-> FALSE]

-----------------------------------------------------------------------------
(* The cloud, as the OSFramework sees it.  A floating IP is a record       *)
(* [id, addr, project, desc, fixedIP, port]: port is its PortID, the ID of *)
(* the port it is bound to ("" when it is bound to none).  Every server    *)
(* has one port; the DeviceID of a port is the ID of its server.           *)

\* the compute instance behind a node, as Controller.getServer finds it
ServerOf(key) == [ID |-> "srv-" \o key, Name |-> key, TenantID |-> "p1"]
NoServer == [ID |-> "", Name |-> "", TenantID |-> ""]
\* an instance that belongs to no node of the cluster
OtherServerID == "srv-x"
\* the ID of an instance the cloud no longer has
GoneServerID == "srv-gone"

\* addresses the floating network can hand out, in the order it does
AddrPool == <<"ip1", "ip2", "ip3", "ip4">>

\* neutronfip.List under ListOpts: an empty option does not filter
ListFloatingIPs(fs, listOpts) ==
    SelectSeq(fs, LAMBDA f :
        /\ (listOpts.FloatingIP = "" \/ f.addr = listOpts.FloatingIP)
        /\ (listOpts.ProjectID = "" \/ f.project = listOpts.ProjectID)
        /\ (listOpts.Description = "" \/ f.desc = listOpts.Description))

\* the address neutronfip.Create gives a new floating IP: the requested one,
\* else the first free one of the pool ("" when the pool is used up)
UsedAddrs(fs) == {fs[i].addr : i \in 1..Len(fs)}
FreeAddrs(fs) == {i \in 1..Len(AddrPool) : AddrPool[i] \notin UsedAddrs(fs)}
PickAddr(fs, requested) ==
    IF requested # "" THEN requested
    ELSE IF FreeAddrs(fs) = {} THEN ""
    ELSE AddrPool[CHOOSE i \in FreeAddrs(fs) : \A j \in FreeAddrs(fs) : i <= j]

\* whether the cloud can serve a create at all (room left, address free)
CanCreate(fs, requested) ==
    /\ Len(fs) < MaxFips
    /\ PickAddr(fs, requested) # ""
    /\ PickAddr(fs, requested) \notin UsedAddrs(fs)

\* the loop with the reuse clause missing its nodepool test
RECURSIVE WalkFIPsAnyNodepool(_, _, _, _, _)
WalkFIPsAnyNodepool(allFIPs, i, floatingIP, nodepool, reuse) ==
    IF i > Len(allFIPs) THEN [fip |-> NoFIP, err |-> ErrFIPNotFound]
    ELSE IF allFIPs[i].addr = floatingIP
         THEN [fip |-> allFIPs[i], err |-> "nil"]
    ELSE IF reuse /\ floatingIP = "" /\ allFIPs[i].fixedIP = ""
         THEN [fip |-> allFIPs[i], err |-> "nil"]
    ELSE WalkFIPsAnyNodepool(allFIPs, i + 1, floatingIP, nodepool, reuse)

\* the loop of getFloatingIP over the listed floating IPs, from entry i on
RECURSIVE WalkFIPs(_, _, _, _, _)
WalkFIPs(allFIPs, i, floatingIP, nodepool, reuse) ==
    IF i > Len(allFIPs) THEN [fip |-> NoFIP, err |-> ErrFIPNotFound]
    ELSE IF allFIPs[i].addr = floatingIP
         THEN [fip |-> allFIPs[i], err |-> "nil"]
    ELSE IF reuse /\ floatingIP = "" /\ nodepool # "" /\ allFIPs[i].fixedIP = ""
         THEN [fip |-> allFIPs[i], err |-> "nil"]
    ELSE WalkFIPs(allFIPs, i + 1, floatingIP, nodepool, reuse)

\* the ListOpts getFloatingIP builds
getFloatingIPListOpts(floatingIP, projectID, nodepool, reuse) ==
    [FloatingIP |-> floatingIP,
     ProjectID |-> projectID,
     Description |-> IF reuse /\ floatingIP = "" /\ nodepool # ""
                     THEN createFIPDescriptionNodepool(nodepool) ELSE ""]

\* OSFramework.getFloatingIP; listOK: whether the List call went through
getFloatingIP(fs, listOK, floatingIP, projectID, nodepool, reuse) ==
    IF ~listOK THEN [fip |-> NoFIP, err |-> "ErrList"]
    ELSE WalkFIPs(ListFloatingIPs(fs,
                      getFloatingIPListOpts(floatingIP, projectID, nodepool, reuse)),
                  1, floatingIP, nodepool, reuse)

\* OSFramework.createFloatingIP; createOK: whether the Create call went through.
\* Returns the floating IP, the error, the cloud afterwards and the metric step.
createFloatingIP(fs, createOK, floatingIP, floatingNetworkID, subnetID, projectID, nodepool) ==
    LET description == IF nodepool # "" THEN createFIPDescriptionNodepool(nodepool)
                       ELSE createFIPDescription
        \* the ID of the new floating IP: one the cloud has not in use
        ids == {fs[i].id : i \in 1..Len(fs)}
        nextID == IF ids = {} THEN 1
                  ELSE 1 + CHOOSE m \in ids : \A i \in ids : i <= m
        new == [id |-> nextID, addr |-> PickAddr(fs, floatingIP),
                project |-> projectID, desc |-> description,
                fixedIP |-> "", port |-> ""]
    IN  IF createOK /\ CanCreate(fs, floatingIP)
        THEN [fip |-> new, err |-> "nil", fips |-> Append(fs, new), createErrs |-> 0]
        ELSE [fip |-> NoFIP, err |-> "ErrCreate", fips |-> fs, createErrs |-> 1]

\* GetOrCreateFloatingIP handing every error of getFloatingIP to the caller
GetOrCreateBranchNoCreate(err) ==
    IF err = "nil" THEN "return" ELSE "fail"

\* OSFramework.GetOrCreateFloatingIP, what it does with getFloatingIP's error:
\* return the floating IP found, go on to create, or return the error
GetOrCreateBranch(err) ==
    IF err = "nil" THEN "return"
    ELSE IF IsFIPNotFound(err) THEN "create"
    ELSE "fail"

\* the switch on port.DeviceID without its default case
EnsureAssociatedBranchNoDefault(deviceID, serverID) ==
    IF deviceID = serverID THEN "already" ELSE "associate"

\* OSFramework.EnsureAssociatedInstanceAndFIP, the switch on port.DeviceID
EnsureAssociatedBranch(deviceID, serverID) ==
    IF deviceID = "" THEN "associate"
    ELSE IF deviceID = serverID THEN "already"
    ELSE "conflict"

\* the port of a server, and a port's DeviceID
PortOf(serverID) == "port-" \o serverID
PortDeviceID(portID) ==
    CHOOSE dev \in {ServerOf(n).ID : n \in Nodes} \cup {OtherServerID} : PortOf(dev) = portID
NoPort == [ID |-> "", DeviceID |-> ""]

\* OSFramework.getPortByID: ports.Get(id).Extract(); portOK: whether the Get
\* went through.  Asked for the empty ID (the PortID of a floating IP that
\* is bound to no port) the cloud has no port to give: the answer that is no
\* error is a port without a device.
getPortByID(id, portOK) ==
    IF ~portOK THEN [port |-> NoPort, err |-> "ErrGetPort"]
    ELSE IF id = "" THEN [port |-> NoPort, err |-> "nil"]
    ELSE [port |-> [ID |-> id, DeviceID |-> PortDeviceID(id)], err |-> "nil"]

\* OSFramework.associateInstanceAndFIP: the request it sends,
\* neutronfip.Update(ctx, client, server.ID, UpdateOpts{FixedIP: floatingIP})
associateRequest(server, floatingIP) ==
    [id |-> server.ID, opts |-> [FixedIP |-> floatingIP]]

\* neutronfip.Update served by the cloud: the floating IP whose ID is the one
\* named in the request takes the options; the others stay as they are
CloudUpdate(fs, request) ==
    [i \in DOMAIN fs |->
        IF ToString(fs[i].id) = request.id
        THEN [fs[i] EXCEPT !.fixedIP = request.opts.FixedIP]
        ELSE fs[i]]

-----------------------------------------------------------------------------
(* Nodes and servers *)

\* a node object: its labels and annotations (the key is its name), status
\* for the rest of the object (conditions, heartbeats), and nils: which of
\* the two maps is a nil map (a nil map has no entries)
Node(labels, annotations) ==
    [exists |-> TRUE, labels |-> labels, annotations |-> annotations, status |-> 0,
     nils |-> {}, providerID |-> <<>>]

\* a node whose provider ID names the compute instance serverID: the
\* provider and the instance ID (<<>> when the field is not set)
WithProviderID(node, serverID) == [node EXCEPT !.providerID = <<"openstack", serverID>>]

\* getServerIDFromNode(node) -> (serverID, err): the instance ID of the
\* provider ID, an error when the node has none
getServerIDFromNode(node) ==
    IF Len(node.providerID) = 2 /\ node.providerID[1] = "openstack" /\ node.providerID[2] # ""
    THEN [serverID |-> node.providerID[2], err |-> "nil"]
    ELSE [serverID |-> "", err |-> "ErrNoProviderID"]

\* OSFramework.GetServerByID: servers.Get(id).Extract(); ok: whether the call
\* went through.  The cloud has one instance per node of the cluster.
GetServerByID(id, ok) ==
    IF ok /\ \E n \in Nodes : ServerOf(n).ID = id
    THEN [server |-> ServerOf(CHOOSE n \in Nodes : ServerOf(n).ID = id), err |-> "nil"]
    ELSE [server |-> NoServer, err |-> "ErrServerByID"]

\* OSFramework.GetServerByName: the first listed server of that name, an
\* error when the listing fails or holds none
GetServerByName(name, ok) ==
    IF ok /\ \E n \in Nodes : ServerOf(n).Name = name
    THEN [server |-> ServerOf(CHOOSE n \in Nodes : ServerOf(n).Name = name), err |-> "nil"]
    ELSE [server |-> NoServer, err |-> "ErrServer"]

\* node.GetLabels() / node.GetAnnotations(): the map, nil or not
GetLabels(node) == [nil |-> "labels" \in node.nils, m |-> node.labels]
GetAnnotations(node) == [nil |-> "annotations" \in node.nils, m |-> node.annotations]

\* reflect.DeepEqual of two maps: both nil or both non-nil, and the same entries
DeepEqual(a, b) == a.nil = b.nil /\ a.m = b.m

\* getLabelValue(node, key) -> (val, ok)
getLabelValue(node, key) ==
    IF key \in DOMAIN node.labels
    THEN [val |-> node.labels[key], ok |-> TRUE]
    ELSE [val |-> "", ok |-> FALSE]

\* K8sFramework.AddLabelsToNode: the given labels merged into the node's
MergeLabels(node, add) ==
    [node EXCEPT !.labels =
        [k \in (DOMAIN node.labels) \cup (DOMAIN add) |->
            IF k \in DOMAIN add THEN add[k] ELSE node.labels[k]],
                 !.nils = IF DOMAIN add = {} THEN @ ELSE @ \ {"labels"}]


\* GetNetworkIDByName / GetSubnetIDByName, when the name is found
NetworkID(name) == "id:" \o name
SubnetID(name) == "id:" \o name
DefaultFloatingNetwork == "default-net"
DefaultFloatingSubnet == "default-sub"

\* the network name taken from the label whenever the label is present
floatingNetworkNameIfPresent(node) ==
    IF getLabelValue(node, labelFloatingNetworkName).ok
    THEN getLabelValue(node, labelFloatingNetworkName).val
    ELSE DefaultFloatingNetwork

\* syncHandler: the effective floating network / subnet name of a node
floatingNetworkName(node) ==
    IF getLabelValue(node, labelFloatingNetworkName).ok
       /\ getLabelValue(node, labelFloatingNetworkName).val # ""
    THEN getLabelValue(node, labelFloatingNetworkName).val
    ELSE DefaultFloatingNetwork

floatingSubnetName(node) ==
    IF getLabelValue(node, labelFloatingSubnetName).ok
       /\ getLabelValue(node, labelFloatingSubnetName).val # ""
    THEN getLabelValue(node, labelFloatingSubnetName).val
    ELSE DefaultFloatingSubnet

\* the enabled check with only the presence of the label tested
nodeIgnoredIfAbsent(node) == ~getLabelValue(node, labelKubeFIPControllerEnabled).ok

\* syncHandler: "Ignore the node if enable label is not set."
nodeIgnored(node) ==
    \/ ~getLabelValue(node, labelKubeFIPControllerEnabled).ok
    \/ getLabelValue(node, labelKubeFIPControllerEnabled).val # "true"

\* syncHandler: floatingIP, nodepool, reuseFIPs as read from the node's labels
nodeFloatingIP(node) == getLabelValue(node, labelExternalIP).val
nodeNodepool(node) == getLabelValue(node, labelNodepoolName).val
nodeReuseFIPs(node) ==
    /\ getLabelValue(node, labelReuseFIPs).ok
    /\ getLabelValue(node, labelReuseFIPs).val = "true"

-----------------------------------------------------------------------------
(* The process (cmd/main.go, metrics.ServeMetrics, Controller.Run).          *)
(* proc.main: "run" (blocked in <-sigs, both goroutines started), "wait"    *)
(* (in wg.Wait), "closing" (Wait returned, the deferred close(stop) has     *)
(* run), "exited" (main returned: the process is gone).                     *)
(* proc.ms: ServeMetrics: "start", "listen" (wg.Add(1) done), "serving"     *)
(* (blocked in <-stop), "failed" (net.Listen failed), "returned".           *)
(* proc.wg: the WaitGroup counter.  proc.synced: the node informer's store  *)
(* has synced (HasSynced).                                                  *)
(* proc.stop: the stop channel is closed.  proc.run: Controller.Run:        *)
(* "start" (waiting for the caches), "running" (workers and ticker spawned, *)
(* blocked in <-stopCh), "returned" (the deferred queue.ShutDown has run).  *)
(* proc.ticker: the ticker goroutine: "off", "running", "stopped".          *)

\* the controller up and serving, no signal received
ProcRunning ==
    [main |-> "run", ms |-> "serving", wg |-> 1, stop |-> FALSE,
     run |-> "running", ticker |-> "running", synced |-> TRUE]

\* the process exists: its goroutines can take steps
Alive == proc.main # "exited"
\* Run has spawned the workers (wait.Until(c.runWorker, ...))
WorkersSpawned == proc.run \in {"running", "returned"}
\* the node informer delivers events: started by Run, halted by the stop signal
InformerRunning == proc.run \in {"start", "running"} /\ ~proc.stop

-----------------------------------------------------------------------------
(* Workers.  Besides the locals of the sync a worker runs (pc, key, node,  *)
(* server, fip, err) its record keeps what the sync did, for observation:  *)
(* calls: the calls issued to the cloud and the API server, in order;      *)
(* wrote: its label write changed the node; fresh: the store held the API  *)
(* server's object when the sync read it; und: no other sync has changed   *)
(* the cloud since the last sync of the key returned success; consec: that *)
(* held for the key's previous sync when this one returned.                *)

IdleWorker ==
    [pc |-> "idle", key |-> "", node |-> NoNode, server |-> NoServer,
     fip |-> NoFIP, err |-> "nil", calls |-> <<>>,
     wrote |-> FALSE, fresh |-> FALSE, und |-> FALSE, consec |-> FALSE]

Called(w, op) == \E i \in 1..Len(workers[w].calls) : workers[w].calls[i][1] = op

\* pc of a worker: "spawned" (the goroutine exists, wait.Until has not yet
\* called runWorker), "idle" (in c.queue.Get), "sync" ... "associate" (in
\* syncHandler, before the call the name stands for), "handle" ... "forget"
\* (in handleError), "done" (before the deferred Done), "exited"
Syncing == {"sync", "network", "subnet", "byid", "byname",
            "fip", "create", "label", "port", "associate"}

InFlight(w) == workers[w].pc \notin {"idle", "exited", "spawned"}

\* whether a call to the cloud or the API server goes through: it may always,
\* and where the behaviour admits faults it may also fail
Answers == IF env.faults THEN BOOLEAN ELSE {TRUE}

\* how the cloud answers an update: as any call when it holds the floating
\* IP named; when it holds none of that ID it may report that, or answer as
\* if it had served the request
UpdateAnswers(request) ==
    IF \E i \in DOMAIN fips : ToString(fips[i].id) = request.id THEN Answers ELSE BOOLEAN

\* syncs started so far
OpsStarted ==
    metrics.successful + metrics.failed
    + Cardinality({w \in Workers : workers[w].pc \in Syncing \cup {"handle"}})

-----------------------------------------------------------------------------
(* History of each key (observation only):                                 *)
(* adds: enqueues of the key by events and ticks (2 stands for "several"); *)
(* streak: failed syncs of the key in a row; stable: the key's last sync   *)
(* returned success and no other sync has changed the cloud since;         *)
(* phase: where the key stands with respect to enqueues during a sync:     *)
(*   off - inflight0 (held by a worker, no pending add when it was         *)
(*   obtained) - inflight1 (enqueued by an event or tick while held) -     *)
(*   armed0 (that sync is done) - armed1 / armed2 (one / two syncs started *)
(*   since, with no enqueue after the first sync was done);                *)
(* resync: "pending" when a tick has enqueued the key and no worker has     *)
(*   obtained it since, "taken" once a worker has;                          *)
(* carried: the first externalIP value a sync has read for the key from the *)
(*   store ("" when none has read one).  resync and carried are kept where  *)
(*   env.observe asks for it, in the scenarios of SpecLive and SpecCarry.   *)
(* enq: enqueues of the key since Forget was last called for it; made:     *)
(*   floating IPs syncs of the key have created; fresh: the node had no     *)
(*   externalIP label at the start; chg: changes of the node at the API     *)
(*   server other than the label writes of syncs.                           *)

NoHistory == [phase |-> "off", adds |-> 0, streak |-> 0, stable |-> FALSE, resync |-> "no", carried |-> "", enq |-> 0,
              made |-> 0, fresh |-> FALSE, chg |-> 0]

\* the node of key k has been changed at the API server by someone else
HistChange(h, k) == [h EXCEPT ![k].chg = @ + 1]

HistEnqueue(h, keys) ==
    [k \in Nodes |->
        IF k \notin keys THEN h[k]
        ELSE [h[k] EXCEPT
                !.adds = Min(@ + 1, 2),
                !.enq = @ + 1,
                !.phase = IF @ \in {"inflight0", "inflight1"} THEN "inflight1"
                          ELSE IF @ = "armed2" THEN @ ELSE "off"]]

HistGet(h, k, qq) ==
    [h EXCEPT ![k].phase =
        IF @ = "off" THEN (IF k \in qq.waiting THEN "off" ELSE "inflight0")
        ELSE IF @ = "armed0" THEN "armed1"
        ELSE IF @ = "armed1" THEN "armed2"
        ELSE @,
              ![k].resync = IF @ = "pending" THEN "taken" ELSE @]

HistRead(h, k, node) ==
    IF env.observe /\ h[k].carried = "" /\ node.exists /\ labelExternalIP \in DOMAIN node.labels
    THEN [h EXCEPT ![k].carried = node.labels[labelExternalIP]]
    ELSE h

HistTick(h, keys) ==
    [k \in Nodes |-> IF k \in keys /\ env.observe THEN [h[k] EXCEPT !.resync = "pending"] ELSE h[k]]

\* handleError has counted the sync of key k
HistHandle(h, k, err) ==
    [h EXCEPT ![k].streak = IF err = "nil" THEN 0 ELSE @ + 1]

\* handleError has added key k again
HistReadd(h, k) ==
    [h EXCEPT ![k].enq = @ + 1,
              ![k].phase = IF @ # "armed2" THEN "off" ELSE @]

\* handleError has called Forget for key k
HistForget(h, k) == [h EXCEPT ![k].enq = 0]

HistDone(h, k, und) ==
    [h EXCEPT ![k].stable = und,
              ![k].phase = IF @ = "inflight1" THEN "armed0"
                           ELSE IF @ = "inflight0" THEN "off" ELSE @]

\* the history of key k at the start: whether its node has no externalIP label
HistStart(node) ==
    [NoHistory EXCEPT !.fresh = node.exists /\ labelExternalIP \notin DOMAIN node.labels]

\* a sync of key k has created a floating IP
HistCreate(h, k) == [h EXCEPT ![k].made = @ + 1]

\* a sync of worker w has changed the cloud: the other keys' syncs see it
HistDisturb(h, w) ==
    [k \in Nodes |-> IF k = workers[w].key THEN h[k] ELSE [h[k] EXCEPT !.stable = FALSE]]

-----------------------------------------------------------------------------
(* Controller: enqueueing *)

\* the objects the informer hands to the handlers and the store lists: a
\* node with its name, or the tombstone cache.DeletedFinalStateUnknown the
\* delete handler gets when the informer has missed the delete
NodeObject(name, node) == [kind |-> "Node", name |-> name, node |-> node]
DeletedFinalStateUnknown(key, node) ==
    [kind |-> "DeletedFinalStateUnknown", name |-> key, node |-> node]

\* cache.MetaNamespaceKeyFunc: the name of a node (nodes have no namespace);
\* an error for an object without object meta, as the tombstone is
MetaNamespaceKeyFunc(obj) ==
    IF obj.kind = "Node" THEN [key |-> obj.name, err |-> "nil"]
    ELSE [key |-> "", err |-> "ErrNoMeta"]

\* enqueueItem adding the key with the queue's plain Add
enqueueItemAdd(qq, obj) ==
    IF MetaNamespaceKeyFunc(obj).err # "nil" THEN qq
    ELSE QAdd(qq, MetaNamespaceKeyFunc(obj).key)

\* Controller.enqueueItem: the key of the object, added rate-limited; nothing
\* is added when the key function fails
enqueueItem(qq, obj) ==
    IF MetaNamespaceKeyFunc(obj).err # "nil" THEN qq
    ELSE QAddRateLimited(qq, MetaNamespaceKeyFunc(obj).key)

\* GetNodeInformerStore().List(): the objects of the store
StoreList(store) == {NodeObject(n, store[n]) : n \in {x \in Nodes : store[x].exists}}

CachedKeys == {n \in Nodes : cache[n].exists}

\* New, the update handler: enqueue only when annotations or labels differ
updateChangesNode(o, n) ==
    \/ ~DeepEqual(GetAnnotations(o), GetAnnotations(n))
    \/ ~DeepEqual(GetLabels(o), GetLabels(n))

\* New, the three handlers given to AddEventHandlerFuncsToNodeInformer: add
\* and delete are c.enqueueItem, update filters.  e: the notification.
eventHandler(qq, e) ==
    IF e.kind = "update"
    THEN IF updateChangesNode(e.old.node, e.obj.node) THEN enqueueItem(qq, e.obj) ELSE qq
    ELSE enqueueItem(qq, e.obj)

\* the keys a handler call hands to the queue (observation)
handlerKeys(e) ==
    IF e.kind = "update" /\ ~updateChangesNode(e.old.node, e.obj.node) THEN {}
    ELSE IF e.obj.kind = "Node" THEN {e.obj.name} ELSE {}

\* enqueues of key n that are bound to come: a notification waiting for its
\* handler, an object the ticker goroutine has listed
PendingEnqueues(n) ==
    Cardinality({i \in 1 .. Len(events) : handlerKeys(events[i]) = {n}})
    + Cardinality({obj \in tick : obj.name = n})

\* an event or a tick may enqueue key n: its counter, with what is bound to
\* come, is below the bound of the behaviour
MayEnqueue(n) == q.failures[n] + PendingEnqueues(n) < env.maxAdds

\* a handler of the informer runs for an event of node n that left the
\* store's object as the model sees it (the add of the initial list, a change
\* of annotations): enqueueItem
NodeEvent(n) ==
    /\ Alive /\ InformerRunning
    /\ cache[n].exists
    /\ MayEnqueue(n)
    /\ q' = enqueueItem(q, NodeObject(n, cache[n]))
    /\ hist' = HistEnqueue(hist, {n})
    /\ UNCHANGED <<workers, cache, api, fips, metrics, env, fipIn, fipOut, proc, events, tick>>

\* what the informer notifies when the store's object of key n goes from old
\* to new: an add, a delete (with the last object, or with a tombstone when
\* the delete itself was missed), or an update
Notifications(n, old, new) ==
    IF ~old.exists
    THEN {[kind |-> "add", old |-> NodeObject(n, new), obj |-> NodeObject(n, new)]}
    ELSE IF ~new.exists
    THEN {[kind |-> "delete", old |-> NodeObject(n, old), obj |-> o] :
             o \in {NodeObject(n, old), DeletedFinalStateUnknown(n, old)}}
    ELSE {[kind |-> "update", old |-> NodeObject(n, old), obj |-> NodeObject(n, new)]}

\* the informer catches up with the API server: the store takes the object
\* of key n; the notification waits for the handlers (one per key at a time)
InformerStore(n) ==
    /\ Alive /\ InformerRunning
    /\ cache[n] # api[n]
    /\ \A i \in 1 .. Len(events) : events[i].obj.name # n
    /\ cache' = [cache EXCEPT ![n] = api[n]]
    /\ \E e \in Notifications(n, cache[n], api[n]) :
          /\ handlerKeys(e) # {} => MayEnqueue(n)
          /\ events' = Append(events, e)
    /\ UNCHANGED <<q, workers, api, fips, metrics, hist, env, fipIn, fipOut, proc, tick>>

\* the informer hands the oldest notification to its handler
InformerHandle ==
    /\ Alive
    /\ events # <<>>
    /\ q' = eventHandler(q, Head(events))
    /\ hist' = HistEnqueue(hist, handlerKeys(Head(events)))
    /\ events' = Tail(events)
    /\ UNCHANGED <<workers, cache, api, fips, metrics, env, fipIn, fipOut, proc, tick>>

\* Controller.Run, the ticker goroutine: case <-ticker.C: enqueueAllItems
\* lists the store
Tick ==
    /\ Alive /\ proc.ticker = "running"
    /\ tick = {}
    /\ CachedKeys # {}
    /\ \A n \in CachedKeys : MayEnqueue(n)
    /\ tick' = StoreList(cache)
    /\ UNCHANGED <<q, workers, cache, api, fips, metrics, hist, env, fipIn, fipOut, proc, events>>

\* enqueueAllItems leaving its loop after the first object
TickEnqueueItemOnce(obj) ==
    /\ Alive
    /\ obj \in tick
    /\ q' = enqueueItem(q, obj)
    /\ hist' = HistTick(HistEnqueue(hist, {obj.name}), {obj.name})
    /\ tick' = {}
    /\ UNCHANGED <<workers, cache, api, fips, metrics, env, fipIn, fipOut, proc, events>>

\* Controller.enqueueAllItems, one turn of its loop: c.enqueueItem(obj)
TickEnqueueItem(obj) ==
    /\ Alive
    /\ obj \in tick
    /\ q' = enqueueItem(q, obj)
    /\ hist' = HistTick(HistEnqueue(hist, {obj.name}), {obj.name})
    /\ tick' = tick \ {obj}
    /\ UNCHANGED <<workers, cache, api, fips, metrics, env, fipIn, fipOut, proc, events>>

\* the delaying queue hands a key over once its delay has passed
DelayPassed(k) ==
    /\ Alive
    /\ k \in q.waiting
    /\ q' = QReady(q, k)
    /\ UNCHANGED <<workers, cache, api, fips, metrics, hist, env, fipIn, fipOut, proc, events, tick>>

-----------------------------------------------------------------------------
(* Controller: processNextItem, syncHandler, handleError *)

\* processNextItem with Done called right after Get instead of deferred
ProcessNextItemGetDoneAtOnce(w) ==
    /\ Alive /\ WorkersSpawned
    /\ workers[w].pc = "idle"
    /\ q.queue # <<>>
    /\ OpsStarted < env.maxOps
    /\ q' = QDone(QGet(q), Head(q.queue))
    /\ workers' = [workers EXCEPT ![w] =
            [IdleWorker EXCEPT !.pc = "sync", !.key = Head(q.queue),
                               !.und = hist[Head(q.queue)].stable]]
    /\ hist' = HistGet(hist, Head(q.queue), q)
    /\ UNCHANGED <<cache, api, fips, metrics, env, fipIn, fipOut, proc, events, tick>>

\* processNextItem: key, quit := c.queue.Get() with quit = false
ProcessNextItemGet(w) ==
    /\ Alive /\ WorkersSpawned
    /\ workers[w].pc = "idle"
    /\ q.queue # <<>>
    /\ OpsStarted < env.maxOps
    /\ q' = QGet(q)
    /\ workers' = [workers EXCEPT ![w] =
            [IdleWorker EXCEPT !.pc = "sync", !.key = Head(q.queue),
                               !.und = hist[Head(q.queue)].stable]]
    /\ hist' = HistGet(hist, Head(q.queue), q)
    /\ UNCHANGED <<cache, api, fips, metrics, env, fipIn, fipOut, proc, events, tick>>

\* syncHandler going on to the label write after a failed lookup
ReturnGoesOn(me, err, calls) ==
    [me EXCEPT !.pc = IF err \in {"ErrNetwork", "ErrSubnet", "ErrServer", "ErrList", "ErrCreate"}
                      THEN "label" ELSE "handle",
               !.err = err, !.calls = calls,
               !.consec = me.und, !.und = (err = "nil")]

\* syncHandler returns err to processNextItem
Return(me, err, calls) ==
    [me EXCEPT !.pc = "handle", !.err = err, !.calls = calls,
               !.consec = me.und, !.und = (err = "nil")]

\* the other workers, once worker w has changed the cloud
Disturbed(w, mine) ==
    [x \in Workers |-> IF x = w THEN mine ELSE [workers[x] EXCEPT !.und = FALSE]]

\* syncHandler returning an error for a key the store does not hold
SyncStartResultMissingFails(me, node, out) ==
    LET read == [me EXCEPT !.node = node]
    IN  IF out = "ErrStore" THEN Return(me, "ErrStore", <<>>)
        ELSE IF ~node.exists THEN Return(read, "ErrNotFound", <<>>)
        ELSE IF nodeIgnored(node) THEN Return(read, "nil", <<>>)
        ELSE [read EXCEPT !.pc = "network"]

\* syncHandler up to the first call to the cloud: the node from the store
\* and the enabled label.  out: the answer of GetNodeFromIndexerByKey
\* (ErrStore: its error).
SyncStartResult(me, node, out) ==
    LET read == [me EXCEPT !.node = node]
    IN  IF out = "ErrStore" THEN Return(me, "ErrStore", <<>>)
        ELSE IF ~node.exists THEN Return(read, "nil", <<>>)
        ELSE IF nodeIgnored(node) THEN Return(read, "nil", <<>>)
        ELSE [read EXCEPT !.pc = "network"]

SyncHandlerStart(w) ==
    /\ Alive
    /\ workers[w].pc = "sync"
    /\ \E out \in (IF env.faults THEN {"ok", "ErrStore"} ELSE {"ok"}) :
        LET me == [workers[w] EXCEPT
                      !.fresh = (cache[workers[w].key] = api[workers[w].key])]
        IN  workers' = [workers EXCEPT ![w] =
                            SyncStartResult(me, cache[me.key], out)]
    /\ hist' = HistRead(hist, workers[w].key, workers'[w].node)
    /\ UNCHANGED <<q, cache, api, fips, metrics, env, fipIn, fipOut, proc, events, tick>>

\* syncHandler: c.osFramework.GetNetworkIDByName(floatingNetworkName)
SyncGetNetwork(w) ==
    /\ Alive
    /\ workers[w].pc = "network"
    /\ \E ok \in Answers :
        LET me == workers[w]
            calls == Append(me.calls, <<"GetNetworkIDByName", floatingNetworkName(me.node)>>)
        IN  workers' = [workers EXCEPT ![w] =
                IF ok THEN [me EXCEPT !.pc = "subnet", !.calls = calls]
                ELSE Return(me, "ErrNetwork", calls)]
    /\ UNCHANGED <<q, cache, api, fips, metrics, hist, env, fipIn, fipOut, proc, events, tick>>

\* syncHandler: c.osFramework.GetSubnetIDByName(floatingSubnetName); then
\* getServer looks for the instance ID in the node
SyncGetSubnet(w) ==
    /\ Alive
    /\ workers[w].pc = "subnet"
    /\ \E ok \in Answers :
        LET me == workers[w]
            calls == Append(me.calls, <<"GetSubnetIDByName", floatingSubnetName(me.node)>>)
        IN  workers' = [workers EXCEPT ![w] =
                IF ~ok THEN Return(me, "ErrSubnet", calls)
                ELSE [me EXCEPT !.calls = calls,
                                !.pc = IF getServerIDFromNode(me.node).err = "nil"
                                       THEN "byid" ELSE "byname"]]
    /\ UNCHANGED <<q, cache, api, fips, metrics, hist, env, fipIn, fipOut, proc, events, tick>>

\* syncHandler -> getServer: GetServerByID for the instance ID of the node;
\* its error is not returned, the lookup by name follows
SyncGetServerByID(w) ==
    /\ Alive
    /\ workers[w].pc = "byid"
    /\ \E ok \in Answers :
        LET me == workers[w]
            serverID == getServerIDFromNode(me.node).serverID
            got == GetServerByID(serverID, ok)
            calls == Append(me.calls, <<"GetServerByID", serverID>>)
        IN  workers' = [workers EXCEPT ![w] =
                IF got.err = "nil"
                THEN [me EXCEPT !.pc = "fip", !.server = got.server, !.calls = calls]
                ELSE [me EXCEPT !.pc = "byname", !.calls = calls]]
    /\ UNCHANGED <<q, cache, api, fips, metrics, hist, env, fipIn, fipOut, proc, events, tick>>

\* syncHandler -> getServer: GetServerByName(node.GetName())
SyncGetServerByName(w) ==
    /\ Alive
    /\ workers[w].pc = "byname"
    /\ \E ok \in Answers :
        LET me == workers[w]
            got == GetServerByName(me.key, ok)
            calls == Append(me.calls, <<"GetServerByName", me.key>>)
        IN  workers' = [workers EXCEPT ![w] =
                IF got.err = "nil"
                THEN [me EXCEPT !.pc = "fip", !.server = got.server, !.calls = calls]
                ELSE Return(me, got.err, calls)]
    /\ UNCHANGED <<q, cache, api, fips, metrics, hist, env, fipIn, fipOut, proc, events, tick>>

\* syncHandler -> GetOrCreateFloatingIP -> getFloatingIP
SyncGetFloatingIP(w) ==
    /\ Alive
    /\ workers[w].pc = "fip"
    /\ \E listOK \in Answers :
        LET me == workers[w]
            got == getFloatingIP(fips, listOK, nodeFloatingIP(me.node), me.server.TenantID,
                                 nodeNodepool(me.node), nodeReuseFIPs(me.node))
            branch == GetOrCreateBranch(got.err)
            calls == Append(me.calls, <<"ListFloatingIPs", nodeFloatingIP(me.node)>>)
        IN  workers' = [workers EXCEPT ![w] =
                IF branch = "return"
                THEN [me EXCEPT !.pc = "label", !.fip = got.fip, !.calls = calls]
                ELSE IF branch = "create"
                THEN [me EXCEPT !.pc = "create", !.calls = calls]
                ELSE Return(me, got.err, calls)]
    /\ UNCHANGED <<q, cache, api, fips, metrics, hist, env, fipIn, fipOut, proc, events, tick>>

\* syncHandler -> GetOrCreateFloatingIP -> createFloatingIP
SyncCreateFloatingIP(w) ==
    /\ Alive
    /\ workers[w].pc = "create"
    /\ \E createOK \in Answers :
        LET me == workers[w]
            made == createFloatingIP(fips, createOK, nodeFloatingIP(me.node),
                                     NetworkID(floatingNetworkName(me.node)),
                                     SubnetID(floatingSubnetName(me.node)),
                                     me.server.TenantID, nodeNodepool(me.node))
            calls == Append(me.calls, <<"CreateFloatingIP", nodeFloatingIP(me.node)>>)
        IN  /\ fips' = made.fips
            /\ metrics' = [metrics EXCEPT !.createErrors = @ + made.createErrs]
            /\ IF made.err = "nil"
               THEN /\ workers' = Disturbed(w, [me EXCEPT !.pc = "label", !.fip = made.fip,
                                                         !.calls = calls])
                    /\ hist' = HistCreate(HistDisturb(hist, w), me.key)
               ELSE /\ workers' = [workers EXCEPT ![w] = Return(me, made.err, calls)]
                    /\ hist' = hist
    /\ UNCHANGED <<q, cache, api, env, fipIn, fipOut, proc, events, tick>>

\* the label map built from the wrong field of the floating IP
syncLabelsFixedIP(fip) == (labelExternalIP :> fip.fixedIP)

\* syncHandler: the label map handed to AddLabelsToNode
syncLabels(fip) == (labelExternalIP :> fip.addr)

\* syncHandler going on to the association when AddLabelsToNode has failed
SyncAddLabelsGoesOn(w) ==
    /\ Alive
    /\ workers[w].pc = "label"
    /\ \E patchOK \in Answers :
        LET me == workers[w]
            calls == Append(me.calls, <<"AddLabelsToNode", me.key>>)
            patched == MergeLabels(api[me.key], syncLabels(me.fip))
        IN  /\ api' = IF patchOK /\ api[me.key].exists
                      THEN [api EXCEPT ![me.key] = patched] ELSE api
            /\ workers' = [workers EXCEPT ![w] =
                   [me EXCEPT !.pc = "port", !.calls = calls,
                              !.wrote = (api' # api)]]
    /\ UNCHANGED <<q, cache, fips, metrics, hist, env, fipIn, fipOut, proc, events, tick>>

\* syncHandler -> AddLabelsToNode
SyncAddLabels(w) ==
    /\ Alive
    /\ workers[w].pc = "label"
    /\ \E patchOK \in Answers :
        LET me == workers[w]
            calls == Append(me.calls, <<"AddLabelsToNode", me.key>>)
            patched == MergeLabels(api[me.key], syncLabels(me.fip))
        IN  IF patchOK /\ api[me.key].exists
            THEN /\ api' = [api EXCEPT ![me.key] = patched]
                 /\ workers' = [workers EXCEPT ![w] =
                        [me EXCEPT !.pc = "port", !.calls = calls,
                                   !.wrote = (patched # api[me.key])]]
            ELSE /\ api' = api
                 /\ workers' = [workers EXCEPT ![w] = Return(me, "ErrAddLabels", calls)]
    /\ UNCHANGED <<q, cache, fips, metrics, hist, env, fipIn, fipOut, proc, events, tick>>

\* syncHandler -> EnsureAssociatedInstanceAndFIP: getPortByID(fip.PortID), for
\* the floating IP as GetOrCreateFloatingIP returned it, and the switch on
\* port.DeviceID
SyncGetPort(w) ==
    /\ Alive
    /\ workers[w].pc = "port"
    /\ \E portOK \in Answers :
        LET me == workers[w]
            got == getPortByID(me.fip.port, portOK)
            calls == Append(me.calls, <<"GetPort", me.fip.port>>)
            branch == EnsureAssociatedBranch(got.port.DeviceID, me.server.ID)
        IN  workers' = [workers EXCEPT ![w] =
                IF got.err # "nil" THEN Return(me, got.err, calls)
                ELSE IF branch = "associate"
                THEN [me EXCEPT !.pc = "associate", !.calls = calls]
                ELSE IF branch = "already" THEN Return(me, "nil", calls)
                ELSE Return(me, "ErrConflict", calls)]
    /\ UNCHANGED <<q, cache, api, fips, metrics, hist, env, fipIn, fipOut, proc, events, tick>>

\* syncHandler -> EnsureAssociatedInstanceAndFIP -> associateInstanceAndFIP
SyncAssociate(w) ==
    /\ Alive
    /\ workers[w].pc = "associate"
    /\ \E updateOK \in UpdateAnswers(associateRequest(workers[w].server, workers[w].fip.addr)) :
        LET me == workers[w]
            request == associateRequest(me.server, me.fip.addr)
            calls == Append(me.calls, <<"UpdateFloatingIP", request.id, request.opts.FixedIP>>)
        IN  IF updateOK
            THEN /\ fips' = CloudUpdate(fips, request)
                 /\ metrics' = metrics
                 /\ IF fips' # fips
                    THEN /\ workers' = Disturbed(w, Return(me, "nil", calls))
                         /\ hist' = HistDisturb(hist, w)
                    ELSE /\ workers' = [workers EXCEPT ![w] = Return(me, "nil", calls)]
                         /\ hist' = hist
            ELSE /\ fips' = fips
                 /\ metrics' = [metrics EXCEPT !.associateErrors = @ + 1]
                 /\ workers' = [workers EXCEPT ![w] = Return(me, "ErrAssociate", calls)]
                 /\ hist' = hist
    /\ UNCHANGED <<q, cache, api, env, fipIn, fipOut, proc, events, tick>>

\* handleError without the retry ceiling
handleErrorRequeuesNoCeiling(qq, err, key) == err # "nil"

\* Controller.handleError: whether the key is added again
handleErrorRequeues(qq, err, key) == err # "nil" /\ NumRequeues(qq, key) < MaxRetries

\* handleError counting every sync as failed
handleErrorMetricsFailed(m, err) == [m EXCEPT !.failed = @ + 1]

\* Controller.handleError: the counters afterwards
handleErrorMetrics(m, err) ==
    IF err = "nil" THEN [m EXCEPT !.successful = @ + 1]
    ELSE [m EXCEPT !.failed = @ + 1]

\* processNextItem: c.handleError(err, key) is entered; it counts the sync
\* in successful_operations_total or failed_operations_total
HandleError(w) ==
    /\ Alive
    /\ workers[w].pc = "handle"
    /\ metrics' = handleErrorMetrics(metrics, workers[w].err)
    /\ workers' = [workers EXCEPT ![w].pc = IF workers[w].err = "nil" THEN "forget"
                                            ELSE "requeues"]
    /\ hist' = HistHandle(hist, workers[w].key, workers[w].err)
    /\ UNCHANGED <<q, cache, api, fips, env, fipIn, fipOut, proc, events, tick>>

\* handleError: if c.queue.NumRequeues(key) < 5
HandleErrorNumRequeues(w) ==
    /\ Alive
    /\ workers[w].pc = "requeues"
    /\ workers' = [workers EXCEPT ![w].pc =
            IF handleErrorRequeues(q, workers[w].err, workers[w].key) THEN "readd"
            ELSE "forget"]
    /\ UNCHANGED <<q, cache, api, fips, metrics, hist, env, fipIn, fipOut, proc, events, tick>>

\* handleError: c.queue.AddRateLimited(key); return
HandleErrorAddRateLimited(w) ==
    /\ Alive
    /\ workers[w].pc = "readd"
    /\ q' = QAddRateLimited(q, workers[w].key)
    /\ workers' = [workers EXCEPT ![w].pc = "done"]
    /\ hist' = HistReadd(hist, workers[w].key)
    /\ UNCHANGED <<cache, api, fips, metrics, env, fipIn, fipOut, proc, events, tick>>

\* handleError: c.queue.Forget(key), after a success and at the retry ceiling
HandleErrorForget(w) ==
    /\ Alive
    /\ workers[w].pc = "forget"
    /\ q' = QForget(q, workers[w].key)
    /\ workers' = [workers EXCEPT ![w].pc = "done"]
    /\ hist' = HistForget(hist, workers[w].key)
    /\ UNCHANGED <<cache, api, fips, metrics, env, fipIn, fipOut, proc, events, tick>>

\* processNextItem: the deferred c.queue.Done(key); runWorker loops
ProcessNextItemDone(w) ==
    /\ Alive
    /\ workers[w].pc = "done"
    /\ q' = QDone(q, workers[w].key)
    /\ workers' = [workers EXCEPT ![w] = IdleWorker]
    /\ hist' = HistDone(hist, workers[w].key, workers[w].und)
    /\ UNCHANGED <<cache, api, fips, metrics, env, fipIn, fipOut, proc, events, tick>>

-----------------------------------------------------------------------------
(* Initial states: the clusters and clouds the controller starts against *)

\* a floating IP of the cloud, bound to the port of server dev or ("") to none
FIP(id, addr, project, desc, dev) ==
    [id |-> id, addr |-> addr, project |-> project, desc |-> desc,
     fixedIP |-> IF dev = "" THEN "" ELSE "fixed",
     port |-> IF dev = "" THEN "" ELSE PortOf(dev)]

Enabled == (labelKubeFIPControllerEnabled :> "true") @@ ("zone" :> "a")
Pooled == Enabled @@ (labelNodepoolName :> "poolA") @@ (labelReuseFIPs :> "true")
Annotations == ("owner" :> "ops")

ZeroMetrics == [successful |-> 0, failed |-> 0, createErrors |-> 0, associateErrors |-> 0]

\* a labelled node whose floating IP sits on a foreign server, and a node
\* disabled by its label; the cloud answers every call
ScenarioConflict ==
    [nodes |-> ("n1" :> Node(Enabled @@ (labelExternalIP :> "ip1"), Annotations))
               @@ ("n2" :> Node((labelKubeFIPControllerEnabled :> "false") @@ ("zone" :> "a"),
                                Annotations)),
     fips |-> <<FIP(1, "ip1", "p1", createFIPDescription, OtherServerID)>>,
     env |-> [maxOps |-> MaxOps, maxAdds |-> MaxAddsHeld, faults |-> FALSE, observe |-> FALSE]]

\* two nodes of one nodepool that reuse floating IPs, one floating IP free;
\* as many syncs as there are nodes, so that each node can be reconciled once
ScenarioReuse ==
    [nodes |-> ("n1" :> WithProviderID(Node(Pooled, Annotations), ServerOf("n1").ID))
               @@ ("n2" :> Node(Pooled, Annotations)),
     fips |-> <<FIP(1, "ip1", "p1", createFIPDescriptionNodepool("poolA"), "")>>,
     env |-> [maxOps |-> Cardinality(Nodes), maxAdds |-> MaxAddsHeld, faults |-> FALSE, observe |-> FALSE]]

\* a cluster of one fresh node, whose provider ID names an instance that is
\* gone, and an empty cloud that may fail
ScenarioFresh ==
    [nodes |-> ("n1" :> WithProviderID(Node(Enabled, Annotations), GoneServerID))
               @@ ("n2" :> NoNode),
     fips |-> <<>>,
     env |-> [maxOps |-> MaxOpsCloud, maxAdds |-> MaxAdds, faults |-> TRUE, observe |-> FALSE]]

\* a node whose floating IP is already on its server, and a node without the
\* enabled label; the cloud may fail
ScenarioAttached ==
    [nodes |-> ("n1" :> WithProviderID(Node(Enabled @@ (labelExternalIP :> "ip1"), Annotations),
                                       ServerOf("n1").ID))
               @@ ("n2" :> Node(("zone" :> "a"), Annotations)),
     fips |-> <<FIP(1, "ip1", "p1", createFIPDescription, "srv-n1")>>,
     env |-> [maxOps |-> MaxOpsCloud, maxAdds |-> MaxAddsHeld, faults |-> TRUE, observe |-> FALSE]]

\* a single node, disabled by its label; the cloud is never called
ScenarioDisabled ==
    [nodes |-> ("n1" :> Node((labelKubeFIPControllerEnabled :> "false") @@ ("zone" :> "a"),
                             Annotations))
               @@ ("n2" :> NoNode),
     fips |-> <<>>,
     env |-> [maxOps |-> MaxOpsDisabled, maxAdds |-> MaxAdds, faults |-> FALSE, observe |-> FALSE]]

Scenarios == {ScenarioConflict, ScenarioReuse, ScenarioFresh, ScenarioAttached, ScenarioDisabled}

NoCall == [called |-> FALSE]

StartIn(s) ==
    /\ cache = s.nodes
    /\ api = s.nodes
    /\ fips = s.fips
    /\ env = s.env
    /\ q = EmptyQueue
    /\ workers = [w \in Workers |-> IdleWorker]
    /\ metrics = ZeroMetrics
    /\ hist = [k \in Nodes |-> HistStart(s.nodes[k])]
    /\ fipIn = NoCall
    /\ fipOut = NoCall
    /\ proc = ProcRunning
    /\ events = <<>>
    /\ tick = {}

Init == \E s \in Scenarios : StartIn(s)

Next ==
    \/ \E n \in Nodes : NodeEvent(n)
    \/ \E n \in Nodes : InformerStore(n)
    \/ InformerHandle
    \/ Tick
    \/ \E obj \in tick : TickEnqueueItem(obj)
    \/ \E k \in Nodes : DelayPassed(k)
    \/ \E w \in Workers : ProcessNextItemGet(w)
    \/ \E w \in Workers : SyncHandlerStart(w)
    \/ \E w \in Workers : SyncGetNetwork(w)
    \/ \E w \in Workers : SyncGetSubnet(w)
    \/ \E w \in Workers : SyncGetServerByID(w)
    \/ \E w \in Workers : SyncGetServerByName(w)
    \/ \E w \in Workers : SyncGetFloatingIP(w)
    \/ \E w \in Workers : SyncCreateFloatingIP(w)
    \/ \E w \in Workers : SyncAddLabels(w)
    \/ \E w \in Workers : SyncGetPort(w)
    \/ \E w \in Workers : SyncAssociate(w)
    \/ \E w \in Workers : HandleError(w)
    \/ \E w \in Workers : HandleErrorNumRequeues(w)
    \/ \E w \in Workers : HandleErrorAddRateLimited(w)
    \/ \E w \in Workers : HandleErrorForget(w)
    \/ \E w \in Workers : ProcessNextItemDone(w)

Spec == Init /\ [][Next]_vars

-----------------------------------------------------------------------------
(* The periodic resync under fair scheduling (SpecLive): the delaying queue *)
(* hands every waiting key over, and every worker goroutine gets to run.    *)

\* the node of ScenarioConflict, whose every sync fails; syncs enough to drop
\* its key at the ceiling and, after the next tick, reconcile it again
ScenarioResync ==
    [nodes |-> [ScenarioConflict.nodes EXCEPT !["n2"] = NoNode],
     fips |-> ScenarioConflict.fips,
     env |-> [maxOps |-> MaxRetries + 1, maxAdds |-> MaxAddsLive, faults |-> FALSE, observe |-> TRUE]]

\* a cluster of one fresh node and an empty cloud that answers every call
ScenarioResyncFresh ==
    [nodes |-> ScenarioFresh.nodes,
     fips |-> ScenarioFresh.fips,
     env |-> [maxOps |-> Cardinality(Nodes), maxAdds |-> MaxAddsLive, faults |-> FALSE, observe |-> TRUE]]

\* two disabled nodes, which every tick enqueues both
ScenarioResyncPair ==
    [nodes |-> [n \in Nodes |-> ScenarioConflict.nodes["n2"]],
     fips |-> <<>>,
     env |-> [maxOps |-> Cardinality(Nodes), maxAdds |-> MaxAddsLive, faults |-> FALSE, observe |-> TRUE]]

InitLive == \E s \in {ScenarioResync, ScenarioResyncFresh, ScenarioResyncPair} : StartIn(s)

\* one step of worker w: runWorker's loop around processNextItem
WorkerStep(w) ==
    \/ ProcessNextItemGet(w)
    \/ SyncHandlerStart(w)
    \/ SyncGetNetwork(w)
    \/ SyncGetSubnet(w)
    \/ SyncGetServerByID(w)
    \/ SyncGetServerByName(w)
    \/ SyncGetFloatingIP(w)
    \/ SyncCreateFloatingIP(w)
    \/ SyncAddLabels(w)
    \/ SyncGetPort(w)
    \/ SyncAssociate(w)
    \/ HandleError(w)
    \/ HandleErrorNumRequeues(w)
    \/ HandleErrorAddRateLimited(w)
    \/ HandleErrorForget(w)
    \/ ProcessNextItemDone(w)

\* the timers of the delaying queue fire, and the worker goroutines run
SpecLive ==
    /\ InitLive
    /\ [][Next]_vars
    /\ WF_vars(\E k \in Nodes : DelayPassed(k))
    /\ WF_vars(\E w \in Workers : WorkerStep(w))
    /\ WF_vars(\E obj \in tick : TickEnqueueItem(obj))

-----------------------------------------------------------------------------
(* The externalIP label of one node over several syncs (SpecCarry). *)

\* a cluster of one fresh node and an empty cloud that answers every call
ScenarioCarry ==
    [nodes |-> ScenarioFresh.nodes,
     fips |-> ScenarioFresh.fips,
     env |-> [maxOps |-> MaxOpsCarry, maxAdds |-> MaxAdds, faults |-> FALSE, observe |-> TRUE]]

InitCarry == StartIn(ScenarioCarry)

SpecCarry == InitCarry /\ [][Next]_vars

-----------------------------------------------------------------------------
(* Nodes with and without the floating network and subnet labels (SpecNames) *)

\* the label absent, present and empty, present with a name
NameLabels(label, name) == {EmptyMap, (label :> ""), (label :> name)}

\* a fresh node with the given network and subnet labels, an empty cloud that
\* may fail
ScenarioNames(net, sub) ==
    [nodes |-> ("n1" :> WithProviderID(Node(Enabled @@ net @@ sub, Annotations), GoneServerID))
               @@ ("n2" :> NoNode),
     fips |-> <<>>,
     env |-> [maxOps |-> MaxOpsNames, maxAdds |-> MaxAddsEvents, faults |-> TRUE, observe |-> FALSE]]

InitNames ==
    \E net \in NameLabels(labelFloatingNetworkName, "netX"),
       sub \in NameLabels(labelFloatingSubnetName, "subX") :
        StartIn(ScenarioNames(net, sub))

SpecNames == InitNames /\ [][Next]_vars

-----------------------------------------------------------------------------
(* Node events of every kind (SpecEvents): nodes are added, updated with   *)
(* and without a change of labels or annotations, and deleted.             *)

\* the node objects the API server comes to hold for a key: they differ from
\* the node of the scenario in a label, and from each other in the
\* annotations: some, none in an empty map, none in a nil map
NodeObjects ==
    {Node((labelKubeFIPControllerEnabled :> "false"), Annotations),
     Node((labelKubeFIPControllerEnabled :> "false"), EmptyMap),
     [Node((labelKubeFIPControllerEnabled :> "false"), EmptyMap) EXCEPT !.nils = {"annotations"}]}

\* changes of nodes at the API server so far
Changes == hist["n1"].chg + hist["n2"].chg

\* a node is created at the API server
NodeAdded(n) ==
    /\ Alive
    /\ ~api[n].exists
    /\ Changes < MaxChanges
    /\ \E obj \in NodeObjects : api' = [api EXCEPT ![n] = obj]
    /\ hist' = HistChange(hist, n)
    /\ UNCHANGED <<q, workers, cache, fips, metrics, env, fipIn, fipOut, proc, events, tick>>

\* a node is updated at the API server: its labels, its annotations, or its
\* status only
NodeUpdated(n) ==
    /\ Alive
    /\ api[n].exists
    /\ Changes < MaxChanges
    /\ \E new \in NodeObjects \cup {[api[n] EXCEPT !.status = 1 - @]} :
          /\ new # api[n]
          /\ api' = [api EXCEPT ![n] = new]
    /\ hist' = HistChange(hist, n)
    /\ UNCHANGED <<q, workers, cache, fips, metrics, env, fipIn, fipOut, proc, events, tick>>

\* a node is deleted at the API server
NodeDeleted(n) ==
    /\ Alive
    /\ api[n].exists
    /\ Changes < MaxChanges
    /\ api' = [api EXCEPT ![n] = NoNode]
    /\ hist' = HistChange(hist, n)
    /\ UNCHANGED <<q, workers, cache, fips, metrics, env, fipIn, fipOut, proc, events, tick>>

\* a disabled node and a key without a node, the nodes that come being
\* disabled too: every sync ends at the lookup in the store or at the enabled
\* label; the keys are enqueued by the handlers of the informer and by the
\* ticker
ScenarioEvents ==
    [nodes |-> ScenarioDisabled.nodes,
     fips |-> <<>>,
     env |-> [maxOps |-> MaxOpsEvents,
             maxAdds |-> MaxAddsEvents, faults |-> FALSE, observe |-> FALSE]]

InitEvents == StartIn(ScenarioEvents)

NextEvents ==
    \/ \E n \in Nodes : NodeEvent(n)
    \/ \E n \in Nodes : InformerStore(n)
    \/ InformerHandle
    \/ Tick
    \/ \E obj \in tick : TickEnqueueItem(obj)
    \/ \E k \in Nodes : DelayPassed(k)
    \/ \E w \in Workers : ProcessNextItemGet(w)
    \/ \E w \in Workers : SyncHandlerStart(w)
    \/ \E w \in Workers : HandleError(w)
    \/ \E w \in Workers : HandleErrorForget(w)
    \/ \E w \in Workers : ProcessNextItemDone(w)
    \/ \E n \in Nodes : NodeAdded(n)
    \/ \E n \in Nodes : NodeUpdated(n)
    \/ \E n \in Nodes : NodeDeleted(n)

SpecEvents == InitEvents /\ [][NextEvents]_vars

-----------------------------------------------------------------------------
(* The process from start to exit (SpecStop): main, ServeMetrics,          *)
(* Controller.Run, the ticker goroutine, the workers leaving.              *)

\* ServeMetrics: wg.Add(1); defer wg.Done()
ServeMetricsAdd ==
    /\ Alive
    /\ proc.ms = "start"
    /\ proc' = [proc EXCEPT !.ms = "listen", !.wg = @ + 1]
    /\ UNCHANGED <<q, workers, cache, api, fips, metrics, hist, env, fipIn, fipOut, events, tick>>

\* ServeMetrics: net.Listen; on an error it returns (the deferred wg.Done
\* runs), else it starts the server goroutine and blocks in <-stop
ServeMetricsListen ==
    /\ Alive
    /\ proc.ms = "listen"
    /\ \E listenOK \in BOOLEAN :
          proc' = IF listenOK THEN [proc EXCEPT !.ms = "serving"]
                  ELSE [proc EXCEPT !.ms = "failed", !.wg = @ - 1]
    /\ UNCHANGED <<q, workers, cache, api, fips, metrics, hist, env, fipIn, fipOut, events, tick>>

\* ServeMetrics: <-stop returns once the channel is closed; deferred wg.Done
ServeMetricsStop ==
    /\ Alive
    /\ proc.ms = "serving"
    /\ proc.stop
    /\ proc' = [proc EXCEPT !.ms = "returned", !.wg = @ - 1]
    /\ UNCHANGED <<q, workers, cache, api, fips, metrics, hist, env, fipIn, fipOut, events, tick>>

\* main: <-sigs returns (SIGINT or SIGTERM); main goes on to wg.Wait()
Signal ==
    /\ proc.main = "run"
    /\ proc' = [proc EXCEPT !.main = "wait"]
    /\ UNCHANGED <<q, workers, cache, api, fips, metrics, hist, env, fipIn, fipOut, events, tick>>

\* main: wg.Wait() returns when the counter is 0; main returns and its
\* deferred close(stop) runs
MainWaitReturn ==
    /\ proc.main = "wait"
    /\ proc.wg = 0
    /\ proc' = [proc EXCEPT !.main = "closing", !.stop = TRUE]
    /\ UNCHANGED <<q, workers, cache, api, fips, metrics, hist, env, fipIn, fipOut, events, tick>>

\* main has returned: the process ends, whatever its goroutines are doing
MainExit ==
    /\ proc.main = "closing"
    /\ proc' = [proc EXCEPT !.main = "exited"]
    /\ UNCHANGED <<q, workers, cache, api, fips, metrics, hist, env, fipIn, fipOut, events, tick>>

\* k8sFramework.Run: the informer, started by Run and running until stopCh is
\* closed, has listed the nodes: its store is synced
InformerSynced ==
    /\ Alive
    /\ proc.run = "start"
    /\ ~proc.stop
    /\ ~proc.synced
    /\ proc' = [proc EXCEPT !.synced = TRUE]
    /\ UNCHANGED <<q, workers, cache, api, fips, metrics, hist, env, fipIn, fipOut, events, tick>>

\* Run spawning workers and ticker without waiting for the store
RunCacheSyncedUnsynced ==
    /\ Alive
    /\ proc.run = "start"
    /\ proc' = [proc EXCEPT !.run = "running", !.ticker = "running"]
    /\ workers' = [w \in Workers |-> [IdleWorker EXCEPT !.pc = "spawned"]]
    /\ UNCHANGED <<q, cache, api, fips, metrics, hist, env, fipIn, fipOut, events, tick>>

\* Run: WaitForCacheToSync returned true; the go statements spawn the workers
\* and the ticker goroutine
RunCacheSynced ==
    /\ Alive
    /\ proc.run = "start"
    /\ proc.synced
    /\ proc' = [proc EXCEPT !.run = "running", !.ticker = "running"]
    /\ workers' = [w \in Workers |-> [IdleWorker EXCEPT !.pc = "spawned"]]
    /\ UNCHANGED <<q, cache, api, fips, metrics, hist, env, fipIn, fipOut, events, tick>>

\* wait.Until(c.runWorker, time.Second, stopCh), the goroutine of worker w
\* starting: it returns when stopCh is closed, else it calls runWorker
WorkerStart(w) ==
    /\ Alive
    /\ workers[w].pc = "spawned"
    /\ workers' = [workers EXCEPT ![w].pc = IF proc.stop THEN "exited" ELSE "idle"]
    /\ UNCHANGED <<q, cache, api, fips, metrics, hist, env, fipIn, fipOut, proc, events, tick>>

\* Run: WaitForCacheToSync returned false because stopCh was closed first;
\* Run returns and the deferred c.queue.ShutDown() runs
RunCacheTimeout ==
    /\ Alive
    /\ proc.run = "start"
    /\ proc.stop
    /\ proc' = [proc EXCEPT !.run = "returned"]
    /\ q' = [q EXCEPT !.shuttingDown = TRUE]
    /\ workers' = [w \in Workers |-> [IdleWorker EXCEPT !.pc = "exited"]]
    /\ UNCHANGED <<cache, api, fips, metrics, hist, env, fipIn, fipOut, events, tick>>

\* Run: <-stopCh returns; Run returns and the deferred c.queue.ShutDown() runs
RunStop ==
    /\ Alive
    /\ proc.run = "running"
    /\ proc.stop
    /\ proc' = [proc EXCEPT !.run = "returned"]
    /\ q' = [q EXCEPT !.shuttingDown = TRUE]
    /\ UNCHANGED <<workers, cache, api, fips, metrics, hist, env, fipIn, fipOut, events, tick>>

\* the ticker goroutine, back at its select: case <-stopCh: ticker.Stop(); return
TickerStop ==
    /\ Alive
    /\ proc.ticker = "running"
    /\ tick = {}
    /\ proc.stop
    /\ proc' = [proc EXCEPT !.ticker = "stopped"]
    /\ UNCHANGED <<q, workers, cache, api, fips, metrics, hist, env, fipIn, fipOut, events, tick>>

\* processNextItem: c.queue.Get() returns quit = true (the queue is shut down
\* and empty); runWorker returns and wait.Until, seeing stopCh closed, too
WorkerQuit(w) ==
    /\ Alive /\ WorkersSpawned
    /\ workers[w].pc = "idle"
    /\ q.shuttingDown
    /\ q.queue = <<>>
    /\ workers' = [workers EXCEPT ![w].pc = "exited"]
    /\ UNCHANGED <<q, cache, api, fips, metrics, hist, env, fipIn, fipOut, proc, events, tick>>

\* a fresh node, an empty cloud that answers every call
ScenarioStop ==
    [nodes |-> ScenarioFresh.nodes,
     fips |-> <<>>,
     env |-> [maxOps |-> MaxOpsStop, maxAdds |-> MaxAddsStop, faults |-> FALSE, observe |-> FALSE]]

InitStop ==
    /\ cache = ScenarioStop.nodes
    /\ api = ScenarioStop.nodes
    /\ fips = ScenarioStop.fips
    /\ env = ScenarioStop.env
    /\ q = EmptyQueue
    /\ workers = [w \in Workers |-> IdleWorker]
    /\ metrics = ZeroMetrics
    /\ hist = [k \in Nodes |-> HistStart(ScenarioStop.nodes[k])]
    /\ fipIn = NoCall
    /\ fipOut = NoCall
    /\ proc = [main |-> "run", ms |-> "start", wg |-> 0, stop |-> FALSE,
               run |-> "start", ticker |-> "off", synced |-> FALSE]
    /\ events = <<>>
    /\ tick = {}

NextStop ==
    \/ Next
    \/ ServeMetricsAdd
    \/ ServeMetricsListen
    \/ ServeMetricsStop
    \/ Signal
    \/ MainWaitReturn
    \/ MainExit
    \/ InformerSynced
    \/ RunCacheSynced
    \/ \E w \in Workers : WorkerStart(w)
    \/ RunCacheTimeout
    \/ RunStop
    \/ TickerStop
    \/ \E w \in Workers : WorkerQuit(w)

SpecStop == InitStop /\ [][NextStop]_vars

-----------------------------------------------------------------------------
(* GetOrCreateFloatingIP on its own: one call, for every cloud content of  *)
(* up to MaxListing floating IPs and every argument.  The call waits on    *)
(* the cloud twice, for the listing and for the create; between the two    *)
(* other clients of the cloud release and allocate floating IPs.           *)
(* fipOut.pc: "list", "create", "returned"; fipOut.before: the cloud as    *)
(* the call's last request found it; fipOut.others: changes by others.     *)

ListingAddrs == {"ip1", "ip2", "ip3"}

\* the cloud contents of exactly n floating IPs (addresses are unique); a
\* floating IP is of any project, of either description, and bound to a
\* server or to none
RECURSIVE CloudsOfLen(_)
CloudsOfLen(n) ==
    IF n = 0 THEN {<<>>}
    ELSE UNION {{Append(fs, FIP(n, a, p, d, dev)) :
                     a \in ListingAddrs \ UsedAddrs(fs), p \in {"p1", "p2"},
                     d \in {createFIPDescription, createFIPDescriptionNodepool("poolA")},
                     dev \in {"", OtherServerID}} :
                    fs \in CloudsOfLen(n - 1)}

Clouds == UNION {CloudsOfLen(n) : n \in 0..MaxListing}

\* what the call has returned and issued
CallReturned(fip, err, before, after, creates) ==
    [called |-> TRUE, pc |-> "returned", others |-> fipOut.others,
     fip |-> fip, err |-> err, before |-> before, fips |-> after,
     creates |-> creates]

InitFIP ==
    /\ fipIn \in [fs : Clouds, floatingIP : {"", "ip1", "ip2"}, projectID : {"p1"},
                  nodepool : {"", "poolA"}, reuse : BOOLEAN,
                  out : [list : BOOLEAN, create : BOOLEAN]]
    /\ fipOut = [called |-> FALSE, pc |-> "list", others |-> 0]
    /\ cache = [n \in Nodes |-> NoNode]
    /\ api = [n \in Nodes |-> NoNode]
    /\ fips = fipIn.fs
    /\ env = [maxOps |-> 0, maxAdds |-> 0, faults |-> FALSE, observe |-> FALSE]
    /\ q = EmptyQueue
    /\ workers = [w \in Workers |-> IdleWorker]
    /\ metrics = ZeroMetrics
    /\ hist = [k \in Nodes |-> NoHistory]
    /\ proc = ProcRunning
    /\ events = <<>>
    /\ tick = {}

\* GetOrCreateFloatingIP -> getFloatingIP: the listing and the search; the
\* floating IP found is returned, ErrFIPNotFound leads on to the create, any
\* other error is returned
CallGetFloatingIP ==
    /\ fipOut.pc = "list"
    /\ LET got == getFloatingIP(fips, fipIn.out.list, fipIn.floatingIP,
                                fipIn.projectID, fipIn.nodepool, fipIn.reuse)
           branch == GetOrCreateBranch(got.err)
       IN  fipOut' = IF branch = "return"
                     THEN CallReturned(got.fip, "nil", fips, fips, 0)
                     ELSE IF branch = "create" THEN [fipOut EXCEPT !.pc = "create"]
                     ELSE CallReturned(NoFIP, got.err, fips, fips, 0)
    /\ UNCHANGED <<q, workers, cache, api, fips, metrics, hist, env, fipIn, proc, events, tick>>

\* GetOrCreateFloatingIP -> createFloatingIP, on the cloud as it is by then;
\* a failed create is counted in MetricErrorCreateFIP
CallCreateFloatingIP ==
    /\ fipOut.pc = "create"
    /\ LET made == createFloatingIP(fips, fipIn.out.create, fipIn.floatingIP,
                                    NetworkID(DefaultFloatingNetwork),
                                    SubnetID(DefaultFloatingSubnet),
                                    fipIn.projectID, fipIn.nodepool)
       IN  /\ fips' = made.fips
           /\ metrics' = [metrics EXCEPT !.createErrors = @ + made.createErrs]
           /\ fipOut' = CallReturned(made.fip, made.err, fips, made.fips, 1)
    /\ UNCHANGED <<q, workers, cache, api, hist, env, fipIn, proc, events, tick>>

\* between the listing and the create another client of the cloud releases
\* a floating IP
CloudRelease ==
    /\ fipOut.pc = "create"
    /\ fipOut.others < MaxOthers
    /\ \E i \in DOMAIN fips :
          fips' = SelectSeq(fips, LAMBDA f : f.id # fips[i].id)
    /\ fipOut' = [fipOut EXCEPT !.others = @ + 1]
    /\ UNCHANGED <<q, workers, cache, api, metrics, hist, env, fipIn, proc, events, tick>>

\* between the listing and the create another client of the cloud allocates
\* a floating IP, for either project
CloudAllocate ==
    /\ fipOut.pc = "create"
    /\ fipOut.others < MaxOthers
    /\ \E a \in ListingAddrs \ UsedAddrs(fips), p \in {"p1", "p2"} :
          LET made == createFloatingIP(fips, TRUE, a, NetworkID(DefaultFloatingNetwork),
                                       SubnetID(DefaultFloatingSubnet), p, "")
          IN  /\ made.err = "nil"
              /\ fips' = made.fips
    /\ fipOut' = [fipOut EXCEPT !.others = @ + 1]
    /\ UNCHANGED <<q, workers, cache, api, metrics, hist, env, fipIn, proc, events, tick>>

NextFIP ==
    \/ CallGetFloatingIP
    \/ CallCreateFloatingIP
    \/ CloudRelease
    \/ CloudAllocate

SpecFIP == InitFIP /\ [][NextFIP]_vars

-----------------------------------------------------------------------------
(* Properties of the queue and the workers *)

\* C1 - In-flight exclusion: at any moment at most one worker is between
\* queue.Get returning a key and queue.Done of that key, whatever events and
\* ticks enqueued the key meanwhile; the key a worker holds is in the queue's
\* processing set and not in its FIFO.
C1InFlightExclusion ==
    /\ \A w1 \in Workers : \A w2 \in Workers :
          (w1 # w2 /\ InFlight(w1) /\ InFlight(w2)) => workers[w1].key # workers[w2].key
    /\ \A w \in Workers :
          InFlight(w) => /\ workers[w].key \in q.processing
                         /\ workers[w].key \notin SeqToSet(q.queue)

\* a worker holds a key that was enqueued several times and added again since
\* (it is dirty), while another worker is idle and the FIFO does not offer it
C1Witness ==
    \E w1 \in Workers : \E w2 \in Workers :
        /\ InFlight(w1) /\ ~InFlight(w2)
        /\ workers[w1].key \in q.dirty
        /\ hist[workers[w1].key].adds = 2

\* C2 - For a key enqueued by events or ticks while its sync is in flight,
\* exactly one additional sync runs after that sync completes: a second sync
\* never starts afterwards without a further enqueue of the key.
C2OneAdditionalSync == \A k \in Nodes : hist[k].phase # "armed2"

\* C3 - handleError. On an error failed_operations_total grows by one
\* (successful_operations_total does not); then the counter of the key is
\* tested: below 5, K is added through the rate limiter with its counter kept
\* (not reset; the add counts one more), else K is forgotten (counter 0) and
\* not added.  On success successful_operations_total grows by one, K is
\* forgotten and not added.
C3HandleErrorStep ==
    \A w \in Workers :
        LET me == workers[w]
            after == workers'[w]
            k == me.key
            notAdded == /\ q'.waiting = q.waiting
                        /\ q'.queue = q.queue
                        /\ q'.dirty = q.dirty
        IN  /\ (me.pc = "handle" /\ after.pc # "handle") =>
                  /\ q' = q
                  /\ IF me.err # "nil"
                     THEN /\ metrics'.failed = metrics.failed + 1
                          /\ metrics'.successful = metrics.successful
                          /\ after.pc = "requeues"
                     ELSE /\ metrics'.successful = metrics.successful + 1
                          /\ metrics'.failed = metrics.failed
                          /\ after.pc = "forget"
            /\ (me.pc = "requeues" /\ after.pc # "requeues") =>
                  /\ q' = q /\ metrics' = metrics
                  /\ after.pc = IF q.failures[k] < 5 THEN "readd" ELSE "forget"
            /\ (me.pc = "readd" /\ after.pc # "readd") =>
                  /\ after.pc = "done" /\ metrics' = metrics
                  /\ k \in q'.waiting
                  /\ q'.failures[k] = q.failures[k] + 1
            /\ (me.pc = "forget" /\ after.pc # "forget") =>
                  /\ after.pc = "done" /\ metrics' = metrics
                  /\ q'.failures[k] = 0
                  /\ notAdded

C3HandleError == [][C3HandleErrorStep]_vars

\* handleError has dropped a key at the ceiling: five failures counted, the
\* counter back at 0, the key not waiting
C3Witness ==
    \E w \in Workers :
        /\ workers[w].pc = "done"
        /\ workers[w].err # "nil"
        /\ q.failures[workers[w].key] = 0
        /\ workers[w].key \notin q.waiting
        /\ metrics.failed >= 5

\* C4 - Conflict scenario: a key enqueued once by an event, every sync of
\* which fails with the conflict error, is added again after each of its
\* first five failures in a row and dropped on the sixth;
\* failed_operations_total has grown by one per failure.
C4RequeuedFiveTimes ==
    \A w \in Workers :
        LET k == workers[w].key
        IN  (/\ workers[w].pc = "done"
             /\ workers[w].err = "ErrConflict"
             /\ hist[k].adds = 1
             /\ metrics.failed = hist[k].streak)
            => /\ hist[k].streak <= 5 => k \in q.waiting \cup q.dirty
               /\ hist[k].streak = 6 =>
                      (q.failures[k] = 0 /\ k \notin q.waiting \cup q.dirty)

\* C5 - A node whose enabled label is absent or not exactly "true": the sync
\* that has read it from the store issues no call to the cloud and no label
\* write and returns success, and handleError then counts one successful
\* operation and forgets the key.
C5DisabledNodeStep ==
    \A w \in Workers :
        LET me == workers[w]
            after == workers'[w]
            enabled == /\ labelKubeFIPControllerEnabled \in DOMAIN me.node.labels
                       /\ me.node.labels[labelKubeFIPControllerEnabled] = "true"
        IN  (InFlight(w) /\ me.pc # "sync" /\ me.node.exists /\ ~enabled) =>
                /\ me.pc \in {"handle", "forget", "done"}
                /\ me.err = "nil"
                /\ me.calls = <<>>
                /\ ~me.wrote
                /\ (me.pc = "handle" /\ after.pc # "handle") =>
                      /\ after.pc = "forget"
                      /\ metrics'.successful = metrics.successful + 1
                      /\ metrics'.failed = metrics.failed
                /\ (me.pc = "forget" /\ after.pc # "forget") =>
                      /\ after.pc = "done"
                      /\ q'.failures[me.key] = 0
                      /\ q'.waiting = q.waiting

C5DisabledNode == [][C5DisabledNodeStep]_vars

\* the sync of a node labelled enabled = "false" has been handled
C5Witness ==
    \E w \in Workers :
        /\ workers[w].pc = "done"
        /\ workers[w].node.exists
        /\ labelKubeFIPControllerEnabled \in DOMAIN workers[w].node.labels
        /\ workers[w].node.labels[labelKubeFIPControllerEnabled] = "false"
        /\ metrics.successful >= 1

-----------------------------------------------------------------------------
(* Properties of the reconciler *)

\* C6 - At most one server per floating IP under races: a sync attaches a
\* floating IP (its update is served) only while the floating IP's port is
\* attached to no other server, and of the syncs of different nodes that
\* selected the same floating IP exactly one attaches it and the other gets
\* the conflict error, so no two successful syncs have attached the same
\* floating IP.
C6OneServerPerFIP ==
    /\ \A w \in Workers :
          (/\ workers[w].pc \in {"handle", "forget", "done"}
           /\ workers[w].err = "nil"
           /\ Called(w, "UpdateFloatingIP"))
          => fips[workers[w].fip.id].port \in {"", PortOf(workers[w].server.ID)}
    /\ \A w1 \in Workers : \A w2 \in Workers :
          (/\ w1 # w2
           /\ workers[w1].pc \in {"handle", "forget", "done"}
           /\ workers[w2].pc \in {"handle", "forget", "done"}
           /\ workers[w1].err = "nil" /\ workers[w2].err = "nil"
           /\ Called(w1, "UpdateFloatingIP") /\ Called(w2, "UpdateFloatingIP"))
          => workers[w1].fip.id # workers[w2].fip.id

\* C7 - Idempotence of sync: when a sync of a key returns success right after
\* a successful sync of the same key, with no change of the cloud by anyone
\* else in between, it has not changed the node's labels and has issued no
\* floating IP create and no association update.
C7SecondSyncChangesNothing ==
    \A w \in Workers :
        (/\ workers[w].pc \in {"handle", "forget", "done"}
         /\ workers[w].consec
         /\ workers[w].err = "nil")
        => /\ ~workers[w].wrote
           /\ ~Called(w, "CreateFloatingIP")
           /\ ~Called(w, "UpdateFloatingIP")

\* C8 - The only label a sync writes on a node is externalIP, with the address
\* of the floating IP GetOrCreateFloatingIP returned in that sync; every other
\* label and every annotation of the node stays as it is, and nothing but a
\* sync's label write changes a node.
C8OnlyExternalIPStep ==
    \A n \in Nodes :
        api'[n] # api[n] =>
            \E w \in Workers :
                /\ workers[w].pc = "label" /\ workers'[w].pc = "port"
                /\ workers[w].key = n
                /\ workers[w].fip # NoFIP
                /\ fips[workers[w].fip.id].addr = workers[w].fip.addr
                /\ api'[n].exists = api[n].exists
                /\ api'[n].annotations = api[n].annotations
                /\ DOMAIN api'[n].labels = DOMAIN api[n].labels \cup {labelExternalIP}
                /\ \A k \in DOMAIN api[n].labels \ {labelExternalIP} :
                      api'[n].labels[k] = api[n].labels[k]
                /\ api'[n].labels[labelExternalIP] = workers[w].fip.addr

C8OnlyExternalIP == [][C8OnlyExternalIPStep]_vars

\* a sync has just labelled a node that had other labels and annotations
C8Witness ==
    \E w \in Workers :
        /\ workers[w].pc = "port"
        /\ workers[w].wrote
        /\ api[workers[w].key].labels[labelExternalIP] = workers[w].fip.addr
        /\ api[workers[w].key].labels["zone"] = "a"
        /\ api[workers[w].key].annotations = Annotations

-----------------------------------------------------------------------------
(* Properties of GetOrCreateFloatingIP (SpecFIP) *)

\* C9 - A call of GetOrCreateFloatingIP issues at most one Create: none when
\* the search selects an existing floating IP or when listing fails (that
\* error is returned and the cloud left alone), exactly one when the search
\* ends with ErrFIPNotFound; ErrFIPNotFound is never returned to the caller.
\* The cloud may have changed between the listing and the create; the create
\* adds at most one floating IP to the cloud it finds, and the create-error
\* counter has counted the one create exactly when it failed.
C9AtMostOneCreate ==
    fipOut.called =>
        LET found == getFloatingIP(fipIn.fs, fipIn.out.list, fipIn.floatingIP,
                                   fipIn.projectID, fipIn.nodepool, fipIn.reuse)
        IN  /\ fipOut.creates \in {0, 1}
            /\ fipOut.err # "ErrFIPNotFound"
            /\ Len(fipOut.fips) <= Len(fipOut.before) + fipOut.creates
            /\ fipOut.creates = 0 => fipOut.fips = fipIn.fs /\ fipOut.others = 0
            /\ found.err = "nil" =>
                  fipOut.creates = 0 /\ fipOut.err = "nil" /\ fipOut.fip = found.fip
            /\ ~fipIn.out.list =>
                  fipOut.creates = 0 /\ fipOut.err = "ErrList" /\ fipOut.fips = fipIn.fs
            /\ found.err = "ErrFIPNotFound" => fipOut.creates = 1
            /\ metrics.createErrors = (IF fipOut.err = "ErrCreate" THEN 1 ELSE 0)
            /\ metrics.createErrors <= fipOut.creates

\* the search over a cloud that holds floating IPs ended with ErrFIPNotFound,
\* another client changed the cloud, and the call created a floating IP in
\* the cloud it then found
C9Witness ==
    /\ fipOut.called
    /\ fipIn.fs # <<>>
    /\ fipOut.creates = 1
    /\ fipOut.err = "nil"
    /\ fipOut.fips = Append(fipOut.before, fipOut.fip)
    /\ fipOut.others = 1
    /\ fipOut.before # fipIn.fs

\* C10 - Selection follows the reference rule for every listing: of the
\* floating IPs listed (project, requested address if any, nodepool
\* description under the reuse clause) the first in order is selected whose
\* address equals the requested one or, only when reuse is true, the requested
\* address empty and the nodepool nonempty, whose fixedIP is empty; if there is
\* none a floating IP is created, in the cloud as the create finds it.  With an empty requested address, reuse and
\* nodepool "" nothing is reused; with an empty requested address and no reuse
\* a floating IP is created.
C10SelectionRule ==
    (fipOut.called /\ fipIn.out.list) =>
        LET req == fipIn.floatingIP
            clause == fipIn.reuse /\ req = "" /\ fipIn.nodepool # ""
            listed == SelectSeq(fipIn.fs, LAMBDA f :
                          /\ f.project = fipIn.projectID
                          /\ (req # "" => f.addr = req)
                          /\ (clause => f.desc = "desc nodepool=" \o fipIn.nodepool))
            hits == {i \in 1..Len(listed) :
                        listed[i].addr = req \/ (clause /\ listed[i].fixedIP = "")}
            first == CHOOSE i \in hits : \A j \in hits : i <= j
        IN  /\ IF hits # {}
               THEN /\ fipOut.err = "nil"
                    /\ fipOut.fip = listed[first]
                    /\ fipOut.creates = 0
                    /\ fipOut.fips = fipIn.fs
               ELSE /\ fipOut.creates = 1
                    /\ fipOut.err = "nil" =>
                          /\ fipOut.fips = Append(fipOut.before, fipOut.fip)
                          /\ fipOut.fip.addr \notin UsedAddrs(fipOut.before)
                          /\ req # "" => fipOut.fip.addr = req
                          /\ fipOut.fip.project = fipIn.projectID
                          /\ fipOut.fip.fixedIP = ""
                          /\ fipOut.fip.desc = IF fipIn.nodepool # ""
                                               THEN "desc nodepool=" \o fipIn.nodepool
                                               ELSE "desc"
            /\ (req = "" /\ fipIn.reuse /\ fipIn.nodepool = "") => fipOut.creates = 1
            /\ (req = "" /\ ~fipIn.reuse) => fipOut.creates = 1

\* reuse is on and the nodepool is "": an unattached floating IP of the
\* project is listed first and yet a new one is created
C10Witness ==
    /\ fipOut.called
    /\ fipIn.floatingIP = "" /\ fipIn.reuse /\ fipIn.nodepool = ""
    /\ fipIn.fs # <<>>
    /\ fipIn.fs[1].project = fipIn.projectID /\ fipIn.fs[1].fixedIP = ""
    /\ fipOut.creates = 1 /\ fipOut.err = "nil"
    /\ fipOut.fip.addr \notin UsedAddrs(fipIn.fs)

-----------------------------------------------------------------------------
(* Properties of the association step *)

\* C11 - EnsureAssociatedInstanceAndFIP decides on the DeviceID of the
\* floating IP's port: empty - one attach update is attempted and its result
\* returned; the server's ID - success and no update; anything else - the
\* conflict error, no update, associate_instance_fip_errors_total untouched.
\* That counter grows only when an attach attempt fails.
C11EnsureAssociatedStep ==
    /\ \A w \in Workers :
        LET me == workers[w]
            after == workers'[w]
            dev == IF me.fip.port = "" THEN "" ELSE PortDeviceID(me.fip.port)
            updates(x) == Cardinality({i \in 1..Len(x.calls) : x.calls[i][1] = "UpdateFloatingIP"})
        IN  /\ (me.pc = "port" /\ after.pc # "port") =>
                /\ fips' = fips
                /\ metrics' = metrics
                /\ updates(after) = 0
                /\ after.pc = "associate" => dev = ""
                /\ (after.pc = "handle" /\ after.err = "nil") => dev = me.server.ID
                /\ (after.pc = "handle" /\ after.err = "ErrConflict") =>
                        dev # "" /\ dev # me.server.ID
                /\ (dev # "" /\ dev # me.server.ID) =>
                        after.pc = "handle" /\ after.err \in {"ErrConflict", "ErrGetPort"}
                /\ dev = me.server.ID =>
                        after.pc = "handle" /\ after.err \in {"nil", "ErrGetPort"}
                /\ dev = "" =>
                        \/ after.pc = "associate"
                        \/ after.pc = "handle" /\ after.err = "ErrGetPort"
            /\ (me.pc = "associate" /\ after.pc # "associate") =>
                /\ after.pc = "handle"
                /\ updates(after) = 1
                /\ after.err \in {"nil", "ErrAssociate"}
                /\ metrics'.associateErrors =
                       metrics.associateErrors + (IF after.err = "nil" THEN 0 ELSE 1)
    /\ metrics'.associateErrors # metrics.associateErrors =>
           \E w \in Workers : /\ workers[w].pc = "associate"
                              /\ workers'[w].err = "ErrAssociate"

C11EnsureAssociated == [][C11EnsureAssociatedStep]_vars

\* a sync has returned the conflict error for a floating IP on the port of
\* another server
C11Witness ==
    \E w \in Workers :
        /\ workers[w].pc = "handle"
        /\ workers[w].err = "ErrConflict"
        /\ workers[w].fip.port = PortOf(OtherServerID)
        /\ ~Called(w, "UpdateFloatingIP")
        /\ metrics.associateErrors = 0


\* C12: after the signal the process shuts down: main, once it waits on its
\* wait group, is never blocked for good.  Either wg.Wait() can return (the
\* counter is 0) or ServeMetrics, the only member of the group, can still
\* take a step towards its wg.Done().
C12MainNeverBlocked ==
    proc.main = "wait" =>
        \/ proc.wg = 0
        \/ ENABLED (ServeMetricsAdd \/ ServeMetricsListen \/ ServeMetricsStop)


\* C13: upon stop the workers drain before the process ends: when main has
\* returned and the process is gone, no worker still holds a key it obtained
\* from the queue (its sync, error handling and Done have all run).
C13WorkersDrainBeforeExit ==
    proc.main = "exited" => \A w \in Workers : ~InFlight(w)


\* C14: on a tick every key of the node cache is listed and every key listed
\* is enqueued (it leaves the listing only by being put in the delaying
\* queue, and under fair scheduling it does leave it), and a key a tick has
\* enqueued is obtained by a worker and synced again, as long as the syncs of
\* the behaviour are not used up; this includes a key that was dropped at the
\* retry ceiling.
C14TickEnqueuesStep ==
    /\ (tick = {} /\ tick' # {}) => {obj.name : obj \in tick'} = {n \in Nodes : cache[n].exists}
    /\ tick' # tick /\ tick # {} =>
          \E obj \in tick : /\ tick' = tick \ {obj}
                            /\ obj.name \in q'.waiting
                            /\ hist'[obj.name].resync = "pending"

C14PeriodicResync ==
    /\ [][C14TickEnqueuesStep]_vars
    /\ \A k \in Nodes :
          (\E obj \in tick : obj.name = k) ~> (\A obj \in tick : obj.name # k)
    /\ \A k \in Nodes :
          (hist[k].resync = "pending") ~>
              (hist[k].resync = "taken" \/ OpsStarted >= env.maxOps)

\* a key whose syncs failed up to the ceiling and which was dropped there
\* (its failure count was forgotten) is synced again after a tick
C14Witness ==
    \E w \in Workers :
        /\ workers[w].pc = "sync"
        /\ workers[w].key = "n1"
        /\ hist["n1"].resync = "taken"
        /\ hist["n1"].streak >= 1
        /\ q.failures["n1"] = 1
        /\ OpsStarted <= env.maxOps


\* C15: the delays with which a key is re-admitted after failed syncs in a
\* row: each lies between 30 s and 600 s, the delay of the first failure after
\* a success (or after the start) is 30 s, and the sequence does not decrease:
\* the delay does not decrease in the limiter's count, and the count of a key
\* goes down only when its sync succeeded or it is dropped at the ceiling.
C15BackoffStep ==
    /\ \A w \in Workers :
          LET k == workers[w].key
          IN  (workers[w].pc = "readd" /\ workers'[w].pc = "done")
              => /\ When(q, k) >= BaseDelay
                 /\ When(q, k) <= MaxDelay
                 /\ hist[k].streak = 1 => When(q, k) = BaseDelay
    /\ \A k \in Nodes :
          /\ \A f \in 0 .. MaxRetries :
                When([q EXCEPT !.failures[k] = f], k) <= When([q EXCEPT !.failures[k] = f + 1], k)
          /\ q'.failures[k] < q.failures[k] =>
                \E w \in Workers :
                    /\ workers[w].key = k
                    /\ workers[w].pc = "forget" /\ workers'[w].pc = "done"
                    /\ workers[w].err = "nil" \/ q.failures[k] >= MaxRetries

C15BackoffDelays == [][C15BackoffStep]_vars


\* C16: the queue holds at most one pending entry per key (no key is twice in
\* the FIFO), and enqueues of a key that is pending and not in flight result
\* in one processing of it: when a worker obtains a key that no worker has
\* held before - so that every enqueue of it so far found it not in flight -
\* no further entry of the key is left behind, in the FIFO or in the delaying
\* queue, to be processed later.
C16DedupStep ==
    /\ \A i, j \in 1 .. Len(q'.queue) : q'.queue[i] = q'.queue[j] => i = j
    /\ \A w \in Workers :
          (/\ workers[w].pc = "idle" /\ workers'[w].pc = "sync"
           /\ OpsStarted = 0)
          => /\ workers'[w].key \notin q'.waiting
             /\ workers'[w].key \notin SeqToSet(q'.queue)

C16Dedup == [][C16DedupStep]_vars


\* C17: an update event enqueues the key if and only if the labels or the
\* annotations of the old and the new object differ (in their entries, or in
\* being a nil map); an add event and a delete event always enqueue it.  An
\* event is handled in the step that takes its notification; enqueued means
\* added rate-limited.
C17EventFilterStep ==
    (events # <<>> /\ events' = Tail(events)) =>
        LET e == Head(events)
            n == e.obj.name
            enqueued == q' = QAddRateLimited(q, n)
            differ == \/ e.old.node.labels # e.obj.node.labels
                      \/ e.old.node.annotations # e.obj.node.annotations
                      \/ e.old.node.nils # e.obj.node.nils
        IN  /\ e.kind \in {"add", "delete"} => enqueued
            /\ e.kind = "update" =>
                   /\ differ => enqueued
                   /\ ~differ => q' = q

C17EventFilter == [][C17EventFilterStep]_vars


\* C18: a key obtained with Get goes through one sync, one call of
\* handleError that increments exactly one of successful_operations_total
\* (the sync returned no error) and failed_operations_total (it returned
\* one), and one Done, in this order, whatever the sync returns; the two
\* counters never decrease and change in no other step.
C18GetSyncCountDoneStep ==
    /\ metrics'.successful >= metrics.successful
    /\ metrics'.failed >= metrics.failed
    /\ (metrics'.successful # metrics.successful \/ metrics'.failed # metrics.failed) =>
          \E w \in Workers : workers[w].pc = "handle" /\ workers'[w].pc \in {"requeues", "forget"}
    /\ \A w \in Workers :
          LET me == workers[w]
              after == workers'[w]
              syncing == Syncing
              counted == /\ metrics'.successful + metrics'.failed
                               = metrics.successful + metrics.failed + 1
                         /\ (metrics'.successful = metrics.successful + 1) <=> (me.err = "nil")
              same == /\ metrics'.successful = metrics.successful
                      /\ metrics'.failed = metrics.failed
          IN  after.pc # me.pc =>
                    /\ after.pc = "sync" => me.pc = "idle" /\ after.key \in q'.processing
                    /\ after.pc \in syncing \ {"sync"} => me.pc \in syncing /\ after.key = me.key
                    /\ after.pc = "handle" => me.pc \in syncing /\ after.key = me.key
                    /\ after.pc = "requeues" => me.pc = "handle" /\ counted
                    /\ after.pc = "readd" => me.pc = "requeues" /\ same
                    /\ after.pc = "forget" =>
                          \/ me.pc = "handle" /\ counted
                          \/ me.pc = "requeues" /\ same
                    /\ after.pc = "done" =>
                          /\ me.pc \in {"readd", "forget"} /\ after.key = me.key
                          /\ same
                    /\ after.pc = "idle" =>
                          /\ me.pc = "done"
                          /\ me.key \notin q'.processing
                          /\ metrics' = metrics

C18GetSyncCountDone == [][C18GetSyncCountDoneStep]_vars

\* syncs have ended on both paths: one counted as successful, and a worker
\* has just counted a failed one and is about to call Done
C18Witness ==
    /\ metrics.successful >= 1
    /\ \E w \in Workers :
          /\ workers[w].pc = "done"
          /\ workers[w].err # "nil"
          /\ metrics.failed >= 1
          /\ workers[w].key \in q.processing


\* C19: once a sync has read externalIP = X for a node from the store, every
\* later sync of the node reads X, asks the cloud for the floating IP with
\* address X (in the listing and in the create) and writes no externalIP
\* label other than X.
C19ExternalIPAuthoritative ==
    \A w \in Workers :
        LET me == workers[w]
            X == hist[me.key].carried
        IN  (InFlight(w) /\ me.pc # "sync" /\ X # "") =>
                /\ me.node.exists => nodeFloatingIP(me.node) = X
                /\ \A i \in 1 .. Len(me.calls) :
                      me.calls[i][1] \in {"ListFloatingIPs", "CreateFloatingIP"}
                          => me.calls[i][2] = X
                /\ Called(w, "AddLabelsToNode") /\ me.pc \in {"port", "associate"}
                          => me.fip.addr = X


\* C20: a sync in which the lookup of the network, of the subnet or of the
\* server, or GetOrCreateFloatingIP (its listing or its create) has failed
\* has returned that error to handleError and has taken no later step: the
\* failed call is its last one, it has written no label and attempted no
\* association, and after a failed network, subnet or server lookup it has
\* neither listed nor created a floating IP.
C20AbortOnLookupError ==
    \A w \in Workers :
        LET me == workers[w]
            lastCall == me.calls[Len(me.calls)][1]
        IN  me.err \in {"ErrNetwork", "ErrSubnet", "ErrServer", "ErrList", "ErrCreate"} =>
                /\ me.pc \in {"handle", "requeues", "readd", "forget", "done"}
                /\ ~me.wrote
                /\ ~Called(w, "AddLabelsToNode")
                /\ ~Called(w, "GetPort")
                /\ ~Called(w, "UpdateFloatingIP")
                /\ me.err \in {"ErrNetwork", "ErrSubnet", "ErrServer"} =>
                      ~Called(w, "ListFloatingIPs") /\ ~Called(w, "CreateFloatingIP")
                /\ me.err = "ErrNetwork" => lastCall = "GetNetworkIDByName" /\ Len(me.calls) = 1
                /\ me.err = "ErrSubnet" => lastCall = "GetSubnetIDByName" /\ Len(me.calls) = 2
                /\ me.err = "ErrServer" =>
                      /\ lastCall = "GetServerByName"
                      /\ Len(me.calls) \in {3, 4}
                      /\ Len(me.calls) = 4 => me.calls[3][1] = "GetServerByID"
                /\ me.err = "ErrList" => lastCall = "ListFloatingIPs" /\ ~Called(w, "CreateFloatingIP")
                /\ me.err = "ErrCreate" => lastCall = "CreateFloatingIP"

\* the create of the floating IP has failed in a sync of a key whose previous
\* sync had failed too; the error is with handleError
C20Witness ==
    \E w \in Workers :
        /\ workers[w].pc = "handle"
        /\ workers[w].err = "ErrCreate"
        /\ Called(w, "CreateFloatingIP")
        /\ hist[workers[w].key].streak >= 1
        /\ api[workers[w].key] = ScenarioFresh.nodes[workers[w].key]


\* C21: the order of the steps of one sync: the externalIP label is written
\* only after GetOrCreateFloatingIP has returned a floating IP, and before
\* EnsureAssociatedInstanceAndFIP is entered; the association is entered only
\* when the label write succeeded; so when the association fails (port fetch,
\* conflict, or attach error) the node carries the externalIP label with the
\* address of the floating IP of that sync.
C21StepOrder ==
    \A w \in Workers :
        LET me == workers[w]
            at(op) == CHOOSE i \in 1 .. Len(me.calls) : me.calls[i][1] = op
            labelled ==
                /\ labelExternalIP \in DOMAIN api[me.key].labels
                /\ api[me.key].labels[labelExternalIP] = me.fip.addr
        IN  /\ Called(w, "AddLabelsToNode") =>
                  /\ me.fip # NoFIP
                  /\ Called(w, "ListFloatingIPs")
                  /\ at("ListFloatingIPs") < at("AddLabelsToNode")
                  /\ Called(w, "CreateFloatingIP") =>
                        at("CreateFloatingIP") < at("AddLabelsToNode")
            /\ Called(w, "GetPort") =>
                  /\ Called(w, "AddLabelsToNode")
                  /\ at("AddLabelsToNode") < at("GetPort")
                  /\ labelled
            /\ Called(w, "UpdateFloatingIP") =>
                  /\ Called(w, "GetPort")
                  /\ at("GetPort") < at("UpdateFloatingIP")
            /\ me.err = "ErrAddLabels" =>
                  ~Called(w, "GetPort") /\ ~Called(w, "UpdateFloatingIP")
            /\ me.err \in {"ErrGetPort", "ErrConflict", "ErrAssociate"} => labelled

\* the attach has failed in a sync that created a floating IP and wrote its
\* address on the node: the node carries the label
C21Witness ==
    \E w \in Workers :
        /\ workers[w].pc = "handle"
        /\ workers[w].err = "ErrAssociate"
        /\ workers[w].wrote
        /\ Called(w, "CreateFloatingIP")
        /\ api[workers[w].key].labels[labelExternalIP] = workers[w].fip.addr


\* C22: Run starts no worker and no ticker before the node store has synced:
\* while it has not, the ticker goroutine does not exist, no worker holds a
\* key or has run, and Run is waiting or has returned; when Run has returned
\* the queue is shut down; and when the stop channel is closed before the
\* store has synced, Run can return (and can do nothing else).
C22StartupOrder ==
    /\ ~proc.synced =>
          /\ proc.run \in {"start", "returned"}
          /\ proc.ticker = "off"
          /\ \A w \in Workers : ~InFlight(w) /\ workers[w].calls = <<>>
          /\ metrics = ZeroMetrics
    /\ proc.run = "returned" => q.shuttingDown
    /\ (Alive /\ proc.run = "start" /\ proc.stop /\ ~proc.synced) =>
          /\ ENABLED RunCacheTimeout
          /\ ~ENABLED RunCacheSynced

\* the stop channel was closed before the store had synced; Run has returned
\* and shut the queue down, with no ticker and no worker started
C22Witness ==
    /\ ~proc.synced
    /\ proc.stop
    /\ proc.run = "returned"
    /\ q.shuttingDown
    /\ proc.ticker = "off"
    /\ proc.main = "closing"


\* C23: the sync of a key whose node the store does not hold (any more), as
\* the store's answer to the lookup says, returns success having issued no
\* call to the cloud and no label write; handleError then increments
\* successful_operations_total, not failed_operations_total, forgets the key
\* and does not add it again.
C23MissingNodeStep ==
    \A w \in Workers :
        LET me == workers[w]
            after == workers'[w]
            k == me.key
        IN  /\ (me.pc = "sync" /\ after.pc # "sync" /\ ~cache[k].exists
                 /\ after.err # "ErrStore") =>
                  /\ after.pc = "handle"
                  /\ after.err = "nil"
                  /\ after.calls = <<>>
                  /\ ~after.wrote
                  /\ api' = api /\ fips' = fips
            /\ (me.pc = "handle" /\ after.pc # "handle" /\ ~me.node.exists
                 /\ me.err # "ErrStore") =>
                  /\ after.pc = "forget"
                  /\ metrics'.successful = metrics.successful + 1
                  /\ metrics'.failed = metrics.failed
            /\ (me.pc = "forget" /\ after.pc # "forget" /\ ~me.node.exists
                 /\ me.err # "ErrStore") =>
                  /\ after.pc = "done"
                  /\ q'.failures[k] = 0
                  /\ q'.waiting = q.waiting
                  /\ q'.queue = q.queue
                  /\ q'.dirty = q.dirty

C23MissingNode == [][C23MissingNodeStep]_vars

\* the key of a deleted node has been synced and handled: counted as
\* successful, forgotten and in no queue
C23Witness ==
    \E w \in Workers :
        /\ workers[w].pc = "done"
        /\ ~workers[w].node.exists
        /\ ~cache[workers[w].key].exists
        /\ workers[w].key = "n1"
        /\ metrics.successful = 1
        /\ q.failures["n1"] = 0
        /\ "n1" \notin q.waiting /\ "n1" \notin q.dirty


\* C24: the first call of a sync is the network lookup, for the value of the
\* node's floating-network-name label when the label is present and not
\* empty and for the default network otherwise; the second is the subnet
\* lookup, for the floating-subnet-name label or the default subnet by the
\* same rule.
C24EffectiveNames ==
    \A w \in Workers :
        LET me == workers[w]
            L == me.node.labels
            net == IF labelFloatingNetworkName \in DOMAIN L /\ L[labelFloatingNetworkName] # ""
                   THEN L[labelFloatingNetworkName] ELSE DefaultFloatingNetwork
            sub == IF labelFloatingSubnetName \in DOMAIN L /\ L[labelFloatingSubnetName] # ""
                   THEN L[labelFloatingSubnetName] ELSE DefaultFloatingSubnet
        IN  /\ Len(me.calls) >= 1 => me.calls[1] = <<"GetNetworkIDByName", net>>
            /\ Len(me.calls) >= 2 => me.calls[2] = <<"GetSubnetIDByName", sub>>
            /\ \A i \in 3 .. Len(me.calls) :
                  me.calls[i][1] \notin {"GetNetworkIDByName", "GetSubnetIDByName"}

\* a node with an empty network label and a subnet label: the lookups were
\* for the default network and for the subnet of the label
C24Witness ==
    \E w \in Workers :
        /\ Len(workers[w].calls) >= 3
        /\ labelFloatingNetworkName \in DOMAIN workers[w].node.labels
        /\ workers[w].node.labels[labelFloatingNetworkName] = ""
        /\ workers[w].calls[1] = <<"GetNetworkIDByName", "default-net">>
        /\ workers[w].calls[2] = <<"GetSubnetIDByName", "subX">>


\* C25: the rate limiter's counter of a key is the number of enqueues of the
\* key since its last forget, whoever enqueued it: event handlers, the
\* ticker and the error handler's re-add each count one. A failed key is
\* re-added (counting one more, and waiting for its delay) exactly when
\* handleError finds that number below MaxRetries; otherwise, and after a
\* success, it is forgotten and the count starts again at zero.
C25CounterStep ==
    /\ \A k \in Nodes : NumRequeues(q', k) = hist'[k].enq
    /\ \A w \in Workers :
          LET me == workers[w]
              after == workers'[w]
              k == me.key
          IN  /\ (me.pc = "requeues" /\ after.pc # "requeues") =>
                    after.pc = IF hist[k].enq < MaxRetries THEN "readd" ELSE "forget"
              /\ (me.pc = "readd" /\ after.pc # "readd") =>
                    /\ NumRequeues(q', k) = NumRequeues(q, k) + 1
                    /\ q.shuttingDown \/ k \in q'.waiting
              /\ (me.pc = "forget" /\ after.pc # "forget") =>
                    /\ NumRequeues(q', k) = 0
                    /\ q'.waiting = q.waiting

C25CountsEveryEnqueue == [][C25CounterStep]_vars

\* a key that has failed fewer than MaxRetries times fails again with its
\* counter at MaxRetries, the rest of the count being an enqueue of an event
\* handler or the ticker: the error handler is about to drop it
C25Witness ==
    \E w \in Workers :
        /\ workers[w].pc = "handle"
        /\ workers[w].err # "nil"
        /\ NumRequeues(q, workers[w].key) = MaxRetries
        /\ hist[workers[w].key].enq = MaxRetries
        /\ hist[workers[w].key].streak >= 1
        /\ hist[workers[w].key].streak < MaxRetries


\* C26: no two distinct nodes carry the same externalIP label value, however
\* the syncs of nodes of one project and nodepool that reuse floating IPs
\* interleave.
C26UniqueExternalIP ==
    \A n1 \in Nodes : \A n2 \in Nodes :
        (/\ n1 # n2
         /\ api[n1].exists /\ api[n2].exists
         /\ labelExternalIP \in DOMAIN api[n1].labels
         /\ labelExternalIP \in DOMAIN api[n2].labels)
        => api[n1].labels[labelExternalIP] # api[n2].labels[labelExternalIP]


\* C27: over all syncs and retries of an enabled node that does not reuse
\* floating IPs and had no externalIP label at the start, at most one
\* floating IP is created, also when the label write or the association
\* fails after the create and the key is retried.
C27AtMostOneFIPCreated ==
    \A k \in Nodes :
        (/\ hist[k].fresh
         /\ ~nodeIgnored(api[k])
         /\ ~nodeReuseFIPs(api[k]))
        => hist[k].made <= 1

=============================================================================
